---- MODULE Spec2Model ----
(***************************************************************************)
(* Evidence aggregation and adaptive scoring engine of the transcript      *)
(* skill-validation backend (backend/src/app).                             *)
(*                                                                         *)
(* Tables are bags of rows: the surrogate primary key and the created_at / *)
(* updated_at stamps are left out of a row, so two rows that agree on      *)
(* every other column are two copies of one bag element.                   *)
(*                                                                         *)
(* Floats are fixed-point integers:                                        *)
(*   map_weight            tenths                                          *)
(*   grade_norm, recency   thousandths                                     *)
(*   evidence_weight       1e-4        (tenths * credits * thousandths)    *)
(*   contribution          1e-7        (evidence_weight * grade_norm)      *)
(*   scores, confidence    1e-4                                            *)
(*   quiz / claimed weight hundredths                                      *)
(***************************************************************************)
EXTENDS Integers, Sequences, FiniteSets, Bags, TLC

VARIABLES
    coursesTaken,          \* bag of CourseTaken rows
    courseSkillMap,        \* bag of CourseSkillMap rows (reference data)
    skillEvidence,         \* bag of SkillEvidence rows
    skillProfileClaimed,   \* bag of SkillProfileClaimed rows
    quizPlan,              \* bag of QuizPlan rows
    quizQuestion,          \* set of QuizQuestion rows (question_id is the key)
    quizAnswer,            \* bag of QuizAnswer rows
    studentSkillPortfolio, \* bag of StudentSkillPortfolio rows
    last,                  \* the last request served and its outcome
    tx,                    \* per worker, the transaction it has open
    questionBank           \* set of QuestionBank rows (id is the key)

vars == <<coursesTaken, courseSkillMap, skillEvidence, skillProfileClaimed,
          quizPlan, quizQuestion, quizAnswer, studentSkillPortfolio, last, tx,
          questionBank>>

----------------------------------------------------------------------------
(* Bounds of the model *)

MaxAnswers == 2
LongAttemptSize == 7
MaxSlots == 2
MaxPerSlot == 2
MaxClaimed == 6
MaxAttempts == 2

(* Program constants *)

DEFAULT_CREDITS == 3
CURRENT_ACADEMIC_YEAR == 4
FLAT_CURRENT_YEAR == 2026
MAX_SKILLS_ALLOWED == 5
QUESTIONS_PER_SKILL == 4

None == -1

ScoreOne == 10000
MilliOne == 1000

Students == {"s1", "s2"}
Skills == {"SQL", "Python"}

----------------------------------------------------------------------------
(* Generic helpers *)

Min(a, b) == IF a <= b THEN a ELSE b
Max(a, b) == IF a >= b THEN a ELSE b

RECURSIVE SumF(_, _)
SumF(f, S) ==
    IF S = {} THEN 0
    ELSE LET x == CHOOSE y \in S : TRUE IN f[x] + SumF(f, S \ {x})

\* floor(a * b / c) without forming a * b (a >= 0, b >= 0, c > 0).
MulDiv(a, b, c) == (a \div c) * b + ((a % c) * b) \div c

\* Rounded quotient a / b for a >= 0, b > 0 (round half up).
RoundDiv(a, b) == (2 * a + b) \div (2 * b)

Rows(b) == BagToSet(b)

\* The rows S of bag b, with their multiplicities.
RestrictBag(b, S) == [r \in S |-> b[r]]

\* Number of copies of the rows S in bag b.
CountRows(b, S) == SumF([x \in S |-> b[x]], S)

RECURSIVE BagOfSeq(_)
BagOfSeq(s) ==
    IF s = <<>> THEN EmptyBag ELSE SetToBag({Head(s)}) (+) BagOfSeq(Tail(s))

\* The bag of the images F[p] of the elements of bag src restricted to dom.
ImageBag(F, src, dom) ==
    LET img == {F[p] : p \in dom}
    IN [r \in img |-> LET pre == {p \in dom : F[p] = r}
                      IN SumF([p \in pre |-> src[p]], pre)]

----------------------------------------------------------------------------
(* skill_scoring.py: pure helpers *)

\* str.upper() and str.strip() on the grade strings of the model.
Upper(g) == CASE g = "a" -> "A" [] g = " a" -> " A" [] OTHER -> g
Strip(g) == CASE g = " A" -> "A" [] g = " a" -> "a" [] OTHER -> g

\* GRADE_MAPPING, in tenths of a grade point.
GRADE_MAPPING(g) ==
    CASE g = "A+" -> 40 [] g = "A" -> 40 [] g = "A-" -> 37
      [] g = "B+" -> 33 [] g = "B" -> 30 [] g = "B-" -> 27
      [] g = "C+" -> 23 [] g = "C" -> 20 [] g = "C-" -> 17
      [] g = "D+" -> 13 [] g = "D" -> 10 [] g = "F" -> 0
      [] OTHER -> 0

get_grade_points(grade) == GRADE_MAPPING(Upper(Strip(grade)))

\* The least number of years for which the double exp(-0.4 * years) is 0.0:
\* exp(-745.2) is below half the smallest positive double.
UnderflowYears == 1863

\* exp(-RECENCY_DECAY * years) in thousandths: 0.670 per year; a positive
\* double under one thousandth is kept as one thousandth, 0.0 as 0.
RECURSIVE ExpDecay(_)
ExpDecay(years) ==
    IF years <= 0 THEN MilliOne
    ELSE IF years >= UnderflowYears THEN 0
    ELSE Max(1, (ExpDecay(years - 1) * 670) \div MilliOne)

\* The calendar year of datetime.now(), read by calculate_recency.
ClockYear == 2026

calculate_recency(academic_year, year_taken) ==
    IF academic_year # None
    THEN ExpDecay(Max(0, CURRENT_ACADEMIC_YEAR - academic_year))
    ELSE IF year_taken # None
         THEN ExpDecay(Max(0, ClockYear - year_taken))
         ELSE MilliOne

determine_skill_level(score) ==
    IF score < 50 * ScoreOne THEN "Beginner"
    ELSE IF score < 75 * ScoreOne THEN "Intermediate"
    ELSE "Advanced"

\* re.match(r"\bIT([1-4])\d{3}\b", course_code) on the course codes of the model.
CodeYear(course_code) ==
    CASE course_code = "IT1010" -> 1
      [] course_code = "IT2040" -> 2
      [] course_code = "IT3020" -> 3
      [] course_code = "IT4010" -> 4
      [] OTHER -> None

\* exp(-x) for x = tw / 4 with tw in 1e-4 units, result in 1e-4 units:
\* 0.7788 per whole unit of tw, a cubic Taylor polynomial for the rest.
RECURSIVE ExpQuarter(_)
ExpQuarter(whole) ==
    IF whole <= 0 THEN ScoreOne ELSE (ExpQuarter(whole - 1) * 7788) \div ScoreOne

ExpNegConfidence(tw) ==
    LET whole == tw \div ScoreOne
        z     == (tw % ScoreOne) \div 4
        poly  == ScoreOne - z + (z * z) \div (2 * ScoreOne)
                 - (((z * z) \div 100) * z) \div (6 * ScoreOne * 100)
    IN (ExpQuarter(whole) * poly) \div ScoreOne

\* The least total_evidence_weight (149.8, in 1e-4 units) from which the
\* double 1 - exp(-0.25 * w) is exactly 1.0: exp(-0.25 * w) is then below
\* half the spacing of the doubles under 1.
FloatOneWeight == 1498000

\* confidence = 1 - exp(-CONFIDENCE_FACTOR * total_evidence_weight), cut to
\* four decimals: 1.0 only where the double is 1.0.
ClaimedConfidence(tw) ==
    IF tw >= FloatOneWeight THEN ScoreOne
    ELSE Min(ScoreOne - 1, ScoreOne - ExpNegConfidence(Max(tw, 0)))

----------------------------------------------------------------------------
(* Input pools *)

CourseRow(code, grade, credits, ay) ==
    [course_code |-> code, grade |-> grade, year_taken |-> None,
     credits |-> credits, academic_year |-> ay]

\* Parsed transcripts handed over by the ingestion step; credits 0 stands
\* for a missing (None) or zero credits column, which the code treats alike.
Transcripts ==
    { {CourseRow("IT1010", "A", 2, 4), CourseRow("IT3020", "F", 3, 4)},
      {CourseRow("IT2040", "B+", 0, None), CourseRow("XX9999", "A", 4, 1)},
      {CourseRow("XX9999", "A", 4, 1)},
      {} }

\* A course parsed from text with a date token (Apr-2021 gives 2021).
DatedRow(code, grade, credits, ay, year) ==
    [course_code |-> code, grade |-> grade, year_taken |-> year,
     credits |-> credits, academic_year |-> ay]

\* Transcripts off the usual range: a credits column read from a stray
\* number, grades in other spellings, years outside 1..4, a course code
\* outside IT1xxx..IT4xxx with the year of its date token.
WideTranscripts ==
    { {CourseRow("IT1010", "a", 150, 4)},
      {DatedRow("IT5010", "A", 3, None, 2025)},
      {DatedRow("IT5010", "B", 3, None, 100), CourseRow("IT4010", "A", 3, 4)},
      {CourseRow("IT2040", " A", 1, 9)},
      {CourseRow("IT3020", "ZZ", 0, None), CourseRow("IT1010", "B+", 3, 1)},
      {CourseRow("XX9999", "A", 4, 1)},
      {CourseRow("IT4010", "A", 3, 4)},
      {CourseRow("IT3020", "C+", 2, 2)},
      {} }

Question(id, attempt, s, skill, difficulty, correct) ==
    [question_id |-> id, attempt_id |-> attempt, student_id |-> s, skill_name |-> skill,
     difficulty |-> difficulty, correct_option |-> correct]

\* The attempt issued before the first request of a behaviour: attempt 1 of
\* s1, three SQL questions.
IssuedQuestions ==
    { Question(1, 1, "s1", "SQL", "easy", "A"), Question(2, 1, "s1", "SQL", "easy", "B"),
      Question(3, 1, "s1", "SQL", "medium", "A") }

\* An attempt over two skills: two SQL questions and one Python question.
MixedQuestions ==
    { Question(1, 1, "s1", "SQL", "easy", "A"), Question(2, 1, "s1", "SQL", "medium", "B"),
      Question(3, 1, "s1", "Python", "easy", "A") }

\* Three attempts: two of s1 (SQL and Python; SQL again) and one of s2.
FrameQuestions ==
    { Question(1, 1, "s1", "SQL", "easy", "A"), Question(2, 1, "s1", "Python", "easy", "B"),
      Question(3, 2, "s1", "SQL", "easy", "B"),
      Question(4, 3, "s2", "SQL", "easy", "A") }

\* An attempt id and a question id that were never issued.
UnknownAttempt == 9
UnknownQuestion == 99

AttemptIds(qq) == {q.attempt_id : q \in qq} \cup {UnknownAttempt}
QuestionIds(qq) == {q.question_id : q \in qq} \cup {UnknownQuestion}
Options == {"A", "B"}

\* Request bodies: lists of at most MaxAnswers answers, listed by question id
\* (a question id may be answered more than once).
AnswerLists(ids, opts) ==
    LET item == [question_id : ids, selected_option : opts]
    IN {l \in UNION {[1..n -> item] : n \in 0..MaxAnswers} :
           \A i \in DOMAIN l : \A j \in DOMAIN l :
               i < j => l[i].question_id <= l[j].question_id}

\* The bodies sent to an attempt.  The service rejects a submission to an
\* attempt the student does not hold before it reads the answers, so one
\* answer is as good as many there.
SubmitBodies(qq, s, attempt, opts) ==
    {l \in AnswerLists(QuestionIds(qq), opts) :
        (\A q \in qq : ~(q.attempt_id = attempt /\ q.student_id = s))
            => Len(l) <= 1}

\* The students who hold a transcript while quizzes are being taken (the
\* other student only ever sends submissions), and what they upload.
QuizTakers == {"s1"}

QuizTranscripts ==
    { {CourseRow("IT1010", "A", 2, 1), CourseRow("IT3020", "F", 3, 4)} }

\* Claimed profiles of up to MaxClaimed skills K1, K2, ... of one student,
\* each skill with one of four (confidence, claimed_score) pairs; a profile
\* lists its pairs in the order of the pool.
ClaimedPairs ==
    << <<2000, 70 * ScoreOne>>, <<2000, 80 * ScoreOne>>, <<2000, 60 * ScoreOne>>,
       <<5000, 70 * ScoreOne>> >>

SkillNames == <<"K1", "K2", "K3", "K4", "K5", "K6", "K7", "K8">>

ProfileOf(f) ==
    SetToBag({[student_id |-> "s1", skill_name |-> SkillNames[i],
               claimed_score |-> ClaimedPairs[f[i]][2],
               claimed_level |-> determine_skill_level(ClaimedPairs[f[i]][2]),
               confidence |-> ClaimedPairs[f[i]][1]] : i \in DOMAIN f})

ClaimedProfiles ==
    UNION { {ProfileOf(f) :
               f \in {g \in [1..n -> DOMAIN ClaimedPairs] :
                         \A i, j \in 1..n : i < j => g[i] <= g[j]}} :
            n \in 0..MaxClaimed }

MapRow(code, skill, w) == [course_code |-> code, skill_name |-> skill, map_weight |-> w]

\* Seeded course -> skill weights (tenths); IT1010 -> Python has weight 0,
\* and IT4010 is mapped with weight 0 only.
SeededMap ==
    SetToBag({ MapRow("IT1010", "SQL", 10), MapRow("IT1010", "Python", 0),
               MapRow("IT3020", "SQL", 10), MapRow("IT2040", "Python", 5),
               MapRow("IT4010", "Python", 0), MapRow("IT5010", "SQL", 10) })

----------------------------------------------------------------------------
(* skill_scoring.py: compute_claimed_skills *)

StudentCourses(ct, s) == {c \in Rows(ct) : c.student_id = s}

\* The (course, mapping) pairs joined by the loop over courses_taken.
EvidencePairs(ct, map, s) ==
    {p \in StudentCourses(ct, s) \X Rows(map) : p[2].course_code = p[1].course_code}

EvidenceRow(c, m) ==
    LET grade_norm == get_grade_points(c.grade) * 25
        credits == IF c.credits # 0 THEN c.credits ELSE DEFAULT_CREDITS
        academic_year == IF c.academic_year # None THEN c.academic_year
                         ELSE CodeYear(c.course_code)
        recency == calculate_recency(academic_year, c.year_taken)
        evidence_weight == m.map_weight * credits * recency
    IN [student_id |-> c.student_id, skill_name |-> m.skill_name,
        course_code |-> c.course_code, map_weight |-> m.map_weight,
        credits |-> credits, grade |-> c.grade, grade_norm |-> grade_norm,
        academic_year |-> academic_year, recency |-> recency,
        evidence_weight |-> evidence_weight,
        contribution |-> grade_norm * evidence_weight]

\* evidence_data as a bag.
EvidenceData(ct, map, s) ==
    LET dom == EvidencePairs(ct, map, s)
    IN ImageBag([p \in dom |-> EvidenceRow(p[1], p[2])],
                [p \in dom |-> ct[p[1]] * map[p[2]]], dom)

\* skill_aggregates[skill]: totals over the evidence of one skill.
TotalEvidenceWeight(ev, skill) ==
    LET S == {e \in Rows(ev) : e.skill_name = skill}
    IN SumF([e \in S |-> ev[e] * e.evidence_weight], S)

TotalContribution(ev, skill) ==
    LET S == {e \in Rows(ev) : e.skill_name = skill}
    IN SumF([e \in S |-> ev[e] * e.contribution], S)

\* The zero-evidence guard of the aggregation loop.
SkipZeroEvidence(total_evidence_weight) == total_evidence_weight = 0

\* A score that is the plain mean of the grades, the weights left out.
ClaimedRow_Unweighted(s, skill, ev) ==
    LET S == {e \in Rows(ev) : e.skill_name = skill}
        tw == TotalEvidenceWeight(ev, skill)
        claimed_score == (SumF([e \in S |-> ev[e] * e.grade_norm], S) * MilliOne)
                            \div SumF([e \in S |-> ev[e]], S)
    IN [student_id |-> s, skill_name |-> skill, claimed_score |-> claimed_score,
        claimed_level |-> determine_skill_level(claimed_score),
        confidence |-> ClaimedConfidence(tw)]

ClaimedRow(s, skill, ev) ==
    LET tc == TotalContribution(ev, skill)
        tw == TotalEvidenceWeight(ev, skill)
        claimed_score == MulDiv(tc, MilliOne, tw)
    IN [student_id |-> s, skill_name |-> skill, claimed_score |-> claimed_score,
        claimed_level |-> determine_skill_level(claimed_score),
        confidence |-> ClaimedConfidence(tw)]

\* The SkillProfileClaimed rows added by the aggregation loop.
ClaimedSkills(s, ev) ==
    LET named == {e.skill_name : e \in Rows(ev)}
        kept == {k \in named : ~SkipZeroEvidence(TotalEvidenceWeight(ev, k))}
    IN SetToBag({ClaimedRow(s, k, ev) : k \in kept})

\* A regeneration that forgets the DELETE.
ClearStudent_NoDelete(table, s) == table

\* The DELETE ... WHERE student_id = s that opens a regeneration.
ClearStudent(table, s) == RestrictBag(table, {r \in Rows(table) : r.student_id # s})

----------------------------------------------------------------------------
(* transcript_processor_flat.py: compute_skill_scores, save_skill_profile *)

\* GRADE_MAP adds "W" and "I" (both 0.0) to the same table.
normalize_grade(grade) == GRADE_MAPPING(Upper(grade)) * 25

FlatRecency(academic_year) ==
    IF academic_year = None THEN 500
    ELSE LET years_ago == FLAT_CURRENT_YEAR - academic_year
         IN IF years_ago <= 0 THEN 1000
            ELSE IF years_ago = 1 THEN 900
            ELSE IF years_ago = 2 THEN 800
            ELSE IF years_ago = 3 THEN 700
            ELSE 600

\* course_dict keeps one row per course code.
FlatPairs(ct, map, s) ==
    LET codes == {c.course_code : c \in StudentCourses(ct, s)}
        course_dict == [k \in codes |->
                          CHOOSE c \in StudentCourses(ct, s) : c.course_code = k]
    IN {<<course_dict[m.course_code], m>> : m \in {x \in Rows(map) : x.course_code \in codes}}

FlatEvidenceRow(c, m) ==
    LET grade_norm == normalize_grade(c.grade)
        credits == IF c.credits # 0 THEN c.credits ELSE DEFAULT_CREDITS
        recency == FlatRecency(c.academic_year)
        evidence_weight == m.map_weight * credits * recency
    IN [student_id |-> c.student_id, skill_name |-> m.skill_name,
        course_code |-> c.course_code, map_weight |-> m.map_weight,
        credits |-> credits, grade |-> c.grade, grade_norm |-> grade_norm,
        academic_year |-> c.academic_year, recency |-> recency,
        evidence_weight |-> evidence_weight,
        contribution |-> grade_norm * evidence_weight]

FlatEvidence(ct, map, s) ==
    LET dom == FlatPairs(ct, map, s)
    IN ImageBag([p \in dom |-> FlatEvidenceRow(p[1], p[2])],
                [p \in dom |-> map[p[2]]], dom)

\* score = round(100 * total_contribution / total_evidence, 2), or 0.0
\* when total_evidence is not positive.  The flat recencies are tenths, so
\* both sums are whole hundreds and the two divisions below are exact.
FlatScore(tc, te) ==
    IF te > 0 THEN RoundDiv(tc \div 10, te \div 100) * 100 ELSE 0

\* confidence = round((evidence_confidence + count_confidence) / 2, 3)
FlatConfidence(te, n) ==
    LET evidence_confidence == Min(te \div Max(3 * n, 1), ScoreOne)
        count_confidence == Min((n * ScoreOne) \div 5, ScoreOne)
    IN RoundDiv(evidence_confidence + count_confidence, 20) * 10

FlatLevel(score) ==
    IF score >= 75 * ScoreOne THEN "Advanced"
    ELSE IF score >= 50 * ScoreOne THEN "Intermediate"
    ELSE "Beginner"

FlatProfileRow(s, skill, ev) ==
    LET tc == TotalContribution(ev, skill)
        te == TotalEvidenceWeight(ev, skill)
        n  == CountRows(ev, {e \in Rows(ev) : e.skill_name = skill})
        score == FlatScore(tc, te)
    IN [student_id |-> s, skill_name |-> skill, claimed_score |-> score,
        claimed_level |-> FlatLevel(score), confidence |-> FlatConfidence(te, n)]

\* skill_scores["skills"]: one profile per skill named by a mapping.
FlatProfiles(s, ev) ==
    SetToBag({FlatProfileRow(s, k, ev) : k \in {e.skill_name : e \in Rows(ev)}})

----------------------------------------------------------------------------
(* quiz_scoring_service.py: score_quiz_attempt *)

determine_level(score) ==
    IF score < 50 * ScoreOne THEN "Beginner"
    ELSE IF score < 75 * ScoreOne THEN "Intermediate"
    ELSE "Advanced"

\* A lookup of the attempt's questions that forgets the student filter.
AttemptQuestions_AnyStudent(qq, s, attempt) ==
    {q \in qq : q.attempt_id = attempt}

\* The QuizQuestion rows of the attempt that carry the student's id.
AttemptQuestions(qq, s, attempt) ==
    {q \in qq : q.attempt_id = attempt /\ q.student_id = s}

SubmittedIds(answers) == {answers[i].question_id : i \in DOMAIN answers}

\* A validation that accepts every submitted id.
InvalidIds_None(answers, questions) == {}

\* invalid_ids = submitted_ids - valid_ids
InvalidIds(answers, questions) ==
    SubmittedIds(answers) \ {q.question_id : q \in questions}

\* answer_map: the last answer given for a question id wins.
AnswerMap(answers) ==
    [id \in SubmittedIds(answers) |->
        LET i == CHOOSE j \in DOMAIN answers :
                    /\ answers[j].question_id = id
                    /\ \A k \in DOMAIN answers : answers[k].question_id = id => k <= j
        IN answers[i].selected_option]

QuizAnswerRow(s, attempt, q, answer_map) ==
    LET answered == q.question_id \in DOMAIN answer_map
    IN [attempt_id |-> attempt, question_id |-> q.question_id, student_id |-> s,
        selected_option |-> IF answered THEN answer_map[q.question_id] ELSE "UNANSWERED",
        is_correct |-> answered /\ answer_map[q.question_id] = q.correct_option]

\* A resubmission that appends to the earlier QuizAnswer rows.
DeletePriorAnswers_Append(qa, s, attempt) == qa

\* Step 3: the DELETE of the attempt's earlier QuizAnswer rows.
DeletePriorAnswers(qa, s, attempt) ==
    RestrictBag(qa, {r \in Rows(qa) : ~(r.attempt_id = attempt /\ r.student_id = s)})

\* Rows for the answered questions only.
NewAnswers_AnsweredOnly(s, attempt, questions, answer_map) ==
    SetToBag({QuizAnswerRow(s, attempt, q, answer_map) :
                 q \in {h \in questions : h.question_id \in DOMAIN answer_map}})

\* Step 4: one QuizAnswer row per question of the attempt.
NewAnswers(s, attempt, questions, answer_map) ==
    SetToBag({QuizAnswerRow(s, attempt, q, answer_map) : q \in questions})

\* skill_stats[skill]
StatTotal(questions, skill) == Cardinality({q \in questions : q.skill_name = skill})

StatCorrect(questions, skill, answer_map) ==
    Cardinality({q \in questions : /\ q.skill_name = skill
                                   /\ q.question_id \in DOMAIN answer_map
                                   /\ answer_map[q.question_id] = q.correct_option})

\* verified_score = 100.0 * correct / total
VerifiedScore(correct, total) ==
    IF total > 0 THEN (100 * ScoreOne * correct) \div total ELSE 0

\* claimed_scores.get(skill_name, 0.0)
ClaimedScoreOf(claimed, s, skill) ==
    LET mine == {p \in Rows(claimed) : p.student_id = s /\ p.skill_name = skill}
    IN IF mine = {} THEN 0 ELSE (CHOOSE p \in mine : TRUE).claimed_score

\* The quiz weight without its cap.
QuizWeight_NoCap(total_qs) == 50 + 5 * total_qs

\* w_quiz = min(0.50 + 0.05 * total_qs, 0.80), in hundredths
QuizWeight(total_qs) == Min(50 + 5 * total_qs, 80)

ClaimedWeight(w_quiz) == 100 - w_quiz

\* A blend that applies the two weights the wrong way round.
FinalScore_Swapped(w_quiz, verified_score, w_claimed, claimed_score) ==
    (w_claimed * verified_score + w_quiz * claimed_score) \div 100

\* final_score = w_quiz * verified_score + w_claimed * claimed_score
FinalScore(w_quiz, verified_score, w_claimed, claimed_score) ==
    (w_quiz * verified_score + w_claimed * claimed_score) \div 100

PortfolioRow(s, skill, questions, answer_map, claimed) ==
    LET total_qs == StatTotal(questions, skill)
        correct_qs == StatCorrect(questions, skill, answer_map)
        verified_score == VerifiedScore(correct_qs, total_qs)
        claimed_score == ClaimedScoreOf(claimed, s, skill)
        w_quiz == QuizWeight(total_qs)
        w_claimed == ClaimedWeight(w_quiz)
        final_score == FinalScore(w_quiz, verified_score, w_claimed, claimed_score)
    IN [student_id |-> s, skill_name |-> skill, claimed_score |-> claimed_score,
        verified_score |-> verified_score, quiz_weight |-> w_quiz,
        claimed_weight |-> w_claimed, final_score |-> final_score,
        final_level |-> determine_level(final_score),
        correct_count |-> correct_qs, total_questions |-> total_qs]

PortfolioKeyRows(portfolio, s, skill) ==
    {r \in Rows(portfolio) : r.student_id = s /\ r.skill_name = skill}

\* An update that adds the new counts to the counts of the row found.
UpsertPortfolio_Accumulate(portfolio, row) ==
    LET found == PortfolioKeyRows(portfolio, row.student_id, row.skill_name)
    IN IF found = {} THEN portfolio (+) SetToBag({row})
       ELSE LET old == CHOOSE r \in found : TRUE
            IN (portfolio (-) SetToBag({old}))
                  (+) SetToBag({[row EXCEPT
                                   !.correct_count = @ + old.correct_count,
                                   !.total_questions = @ + old.total_questions]})

\* Step 7: update the row found by .first(), or add a new one.
UpsertPortfolio(portfolio, row) ==
    LET found == PortfolioKeyRows(portfolio, row.student_id, row.skill_name)
    IN IF found = {} THEN portfolio (+) SetToBag({row})
       ELSE (portfolio (-) SetToBag({CHOOSE r \in found : TRUE})) (+) SetToBag({row})

\* A blender that first clears the portfolio of the students it writes for.
UpsertAll_ReplaceStudent(portfolio, rows) ==
    RestrictBag(portfolio, {r \in Rows(portfolio) :
                               \A n \in rows : n.student_id # r.student_id})
        (+) SetToBag(rows)

RECURSIVE UpsertAll(_, _)
UpsertAll(portfolio, rows) ==
    IF rows = {} THEN portfolio
    ELSE LET row == CHOOSE r \in rows : TRUE
         IN UpsertAll(UpsertPortfolio(portfolio, row), rows \ {row})

\* The portfolio rows computed by one submission, one per skill of the attempt.
BlendedRows(s, questions, answer_map, claimed) ==
    {PortfolioRow(s, k, questions, answer_map, claimed) : k \in {q.skill_name : q \in questions}}

\* The outcome of the checks made before anything is written.
SubmitStatus(s, attempt, answers) ==
    LET questions == AttemptQuestions(quizQuestion, s, attempt)
    IN IF answers = <<>> THEN "EmptyAnswers"
       ELSE IF questions = {} THEN "AttemptNotFound"
       ELSE IF InvalidIds(answers, questions) # {} THEN "InvalidQuestionId"
       ELSE "ok"

----------------------------------------------------------------------------
(* quiz_planner.py *)

\* determine_difficulty_mix
determine_difficulty_mix(skill_score) ==
    IF skill_score >= 85 * ScoreOne THEN [easy |-> 1, medium |-> 1, hard |-> 2]
    ELSE IF skill_score >= 70 * ScoreOne THEN [easy |-> 2, medium |-> 1, hard |-> 1]
    ELSE [easy |-> 2, medium |-> 2, hard |-> 0]

\* all_claimed_skills
AllClaimedSkills(claimed, s) == {p \in Rows(claimed) : p.student_id = s}

\* skill_lookup
SkillLookup(claimed, s) ==
    LET mine == AllClaimedSkills(claimed, s)
    IN [k \in {p.skill_name : p \in mine} |-> CHOOSE p \in mine : p.skill_name = k]

\* A plan request: selected_skills is None (auto) or a list of names.
PlanRequest(auto, names) == [auto |-> auto, names |-> names]

PlanRequests == {PlanRequest(TRUE, <<>>), PlanRequest(FALSE, <<"SQL">>)}

\* An unknown skill name, and the selections sent when plans are studied on
\* their own: auto, empty, one or two names, a repeated name, an unknown
\* name, and one name more than MAX_SKILLS_ALLOWED.
UnknownSkill == "Rust"

PlanSelections ==
    PlanRequests \cup
    { PlanRequest(FALSE, <<>>), PlanRequest(FALSE, <<"Python", "SQL">>),
      PlanRequest(FALSE, <<"SQL", "SQL">>), PlanRequest(FALSE, <<"SQL", UnknownSkill>>),
      PlanRequest(FALSE, [i \in 1..(MAX_SKILLS_ALLOWED + 1) |-> "SQL"]) }

\* Checks that let a long selection through.
CreatePlanStatus_NoLimit(claimed, s, req) ==
    IF AllClaimedSkills(claimed, s) = {} THEN "NoSkills"
    ELSE IF ~req.auto /\ \E i \in DOMAIN req.names :
                             req.names[i] \notin DOMAIN SkillLookup(claimed, s)
         THEN "SkillNotFound"
    ELSE "ok"

\* The checks create_quiz_plan makes before it writes.
CreatePlanStatus(claimed, s, req) ==
    IF AllClaimedSkills(claimed, s) = {} THEN "NoSkills"
    ELSE IF ~req.auto /\ Len(req.names) > MAX_SKILLS_ALLOWED THEN "TooManySkills"
    ELSE IF ~req.auto /\ \E i \in DOMAIN req.names :
                             req.names[i] \notin DOMAIN SkillLookup(claimed, s)
         THEN "SkillNotFound"
    ELSE "ok"

AbsDiff(a, b) == IF a >= b THEN a - b ELSE b - a

\* A key that puts the most confident skill first.
PriorityLE_ConfidentFirst(a, b) ==
    \/ a.confidence > b.confidence
    \/ /\ a.confidence = b.confidence
       /\ \/ AbsDiff(a.claimed_score, 70 * ScoreOne) < AbsDiff(b.claimed_score, 70 * ScoreOne)
          \/ /\ AbsDiff(a.claimed_score, 70 * ScoreOne) = AbsDiff(b.claimed_score, 70 * ScoreOne)
             /\ a.claimed_score >= b.claimed_score

\* The sort key (confidence, abs(claimed_score - 70), -claimed_score).
PriorityLE(a, b) ==
    \/ a.confidence < b.confidence
    \/ /\ a.confidence = b.confidence
       /\ \/ AbsDiff(a.claimed_score, 70 * ScoreOne) < AbsDiff(b.claimed_score, 70 * ScoreOne)
          \/ /\ AbsDiff(a.claimed_score, 70 * ScoreOne) = AbsDiff(b.claimed_score, 70 * ScoreOne)
             /\ a.claimed_score >= b.claimed_score

\* sorted(all_skills_list, key=...): the rows in an order in which no row
\* comes after one it precedes by the key.
RECURSIVE SortedSkills(_)
SortedSkills(rows) ==
    IF rows = {} THEN <<>>
    ELSE LET first == CHOOSE r \in rows : \A o \in rows : PriorityLE(r, o)
         IN <<first>> \o SortedSkills(rows \ {first})

\* sorted_skills[:max_skills], as names
AutoPick(lookup, max_skills) ==
    LET sorted_skills == SortedSkills({lookup[k] : k \in DOMAIN lookup})
    IN [i \in 1..Min(max_skills, Len(sorted_skills)) |-> sorted_skills[i].skill_name]

\* The QuizPlan row create_quiz_plan adds.
NewPlan(claimed, s, req) ==
    LET lookup == SkillLookup(claimed, s)
        selected_skill_names == IF req.auto THEN AutoPick(lookup, MAX_SKILLS_ALLOWED)
                                ELSE req.names
        named == {selected_skill_names[i] : i \in DOMAIN selected_skill_names}
    IN [student_id |-> s, skill_type |-> "claimed", skills |-> selected_skill_names,
        questions_per_skill |-> QUESTIONS_PER_SKILL,
        difficulty_mix |-> [k \in named |->
                               determine_difficulty_mix(lookup[k].claimed_score)]]

PlansOf(plans, s) == {r \in Rows(plans) : r.student_id = s}

----------------------------------------------------------------------------
(* question_bank_service.py: sample_quiz_from_bank *)

BankQuestion(id, skill, difficulty, text, correct) ==
    [id |-> id, skill_name |-> skill, difficulty |-> difficulty,
     question_text |-> text, correct_option |-> correct]

\* The questions an administrator may have generated into the bank.
BankPool ==
    { BankQuestion(1, "SQL", "hard", "sql-h1", "A"),
      BankQuestion(2, "SQL", "medium", "sql-m1", "B"),
      BankQuestion(3, "SQL", "medium", "sql-m2", "A"),
      BankQuestion(4, "SQL", "easy", "sql-e1", "A") }

SeededBank == BankPool

\* skill_difficulty_requirements: lists of at most MaxSlots slots.
Slot(skill, difficulty) == [skill_name |-> skill, difficulty |-> difficulty]

SlotPool == << Slot("SQL", "easy"), Slot("SQL", "medium"), Slot("SQL", "hard"),
              Slot("Python", "hard") >>

\* The route lists the slots skill by skill and, within a skill, in the
\* order of the mix; a slot may be listed more than once.
RequirementLists ==
    UNION { {[i \in 1..n |-> SlotPool[f[i]]] :
             f \in {g \in [1..n -> DOMAIN SlotPool] :
                       \A i, j \in 1..n : i < j => g[i] <= g[j]}} :
            n \in 0..MaxSlots }

\* A fallback that always tries the easiest difficulty first.
FallbackOrder_EasiestFirst(difficulty) ==
    CASE difficulty = "hard" -> <<"easy", "medium">>
      [] difficulty = "medium" -> <<"easy", "hard">>
      [] difficulty = "easy" -> <<"medium", "hard">>
      [] OTHER -> <<>>

\* fallback_order.get(difficulty, [])
FallbackOrder(difficulty) ==
    CASE difficulty = "hard" -> <<"medium", "easy">>
      [] difficulty = "medium" -> <<"easy", "hard">>
      [] difficulty = "easy" -> <<"medium", "hard">>
      [] OTHER -> <<>>

\* The rows matching QuestionBank.skill_name == ..., difficulty == ...
Cell(bank, skill, difficulty) ==
    {q \in bank : q.skill_name = skill /\ q.difficulty = difficulty}

\* order_by(func.random()).limit(k).all(): any k rows of the cell, or all of
\* them when it holds fewer.
RandomLimit(cell, k) ==
    {S \in SUBSET cell : Cardinality(S) = Min(k, Cardinality(cell))}

\* The rows of a query result as a list (here by id; the order of a random
\* draw is not followed any further).
AsList(S) ==
    CHOOSE f \in [1..Cardinality(S) -> S] :
        \A i, j \in 1..Cardinality(S) : i < j => f[i].id < f[j].id

\* An entry of the warnings list.
Warning(kind, skill, difficulty, found, requested) ==
    [kind |-> kind, skill |-> skill, difficulty |-> difficulty,
     found |-> found, requested |-> requested]

\* What one slot can yield: its questions and the warnings it adds.
SlotYield(questions, warnings) == [questions |-> questions, warnings |-> warnings]

\* A gap that no other difficulty is asked to fill.
RECURSIVE FillGap_Never(_, _, _, _, _)
FillGap_Never(bank, skill, order, i, remaining) == {SlotYield(<<>>, <<>>)}

\* The loop that fills a gap from the fallback difficulties, from order[i] on.
RECURSIVE FillGap(_, _, _, _, _)
FillGap(bank, skill, order, i, remaining) ==
    IF i > Len(order) THEN {SlotYield(<<>>, <<>>)}
    ELSE UNION {
           IF S = {} THEN FillGap(bank, skill, order, i + 1, remaining)
           ELSE LET here == SlotYield(AsList(S),
                                      <<Warning("filled", skill, order[i], Cardinality(S), 0)>>)
                IN IF remaining - Cardinality(S) <= 0 THEN {here}
                   ELSE {SlotYield(here.questions \o rest.questions,
                                   here.warnings \o rest.warnings) :
                         rest \in FillGap(bank, skill, order, i + 1,
                                          remaining - Cardinality(S))}
           : S \in RandomLimit(Cell(bank, skill, order[i]), remaining)}

\* The branch taken when the exact cell is empty: the first fallback
\* difficulty that holds a question, else the slot is skipped.
EmptyCellYield(bank, skill, difficulty, questions_per_skill) ==
    LET order == FallbackOrder(difficulty)
        none == Warning("none_available", skill, difficulty, 0, 0)
        usable == {i \in DOMAIN order : Cell(bank, skill, order[i]) # {}}
    IN IF usable = {}
       THEN {SlotYield(<<>>, <<none, Warning("skipping", skill, "", 0, 0)>>)}
       ELSE LET first == CHOOSE i \in usable : \A j \in usable : i <= j
            IN {SlotYield(AsList(S),
                          <<none, Warning("used_instead", skill, order[first],
                                          Cardinality(S), 0)>>) :
                S \in RandomLimit(Cell(bank, skill, order[first]), questions_per_skill)}

\* One pass of the loop over the requirements.
SlotOutcomes(bank, req, questions_per_skill) ==
    LET skill == req.skill_name
        difficulty == req.difficulty
        cell == Cell(bank, skill, difficulty)
    IN IF cell = {} THEN EmptyCellYield(bank, skill, difficulty, questions_per_skill)
       ELSE UNION {
              IF Cardinality(S) < questions_per_skill
              THEN {SlotYield(AsList(S) \o gap.questions,
                              <<Warning("only", skill, difficulty, Cardinality(S),
                                        questions_per_skill)>> \o gap.warnings) :
                    gap \in FillGap(bank, skill, FallbackOrder(difficulty), 1,
                                    questions_per_skill - Cardinality(S))}
              ELSE {SlotYield(AsList(S), <<>>)}
              : S \in RandomLimit(cell, questions_per_skill)}

\* The dict appended to sampled_questions for a bank row.
SampledQuestion(q) ==
    [skill_name |-> q.skill_name, difficulty |-> q.difficulty,
     question |-> q.question_text, correct_option |-> q.correct_option]

\* Every run of the loop: per slot the rows taken (slots), the flat list of
\* sampled questions, and the warnings.
RECURSIVE SampleOutcomes(_, _, _)
SampleOutcomes(bank, reqs, questions_per_skill) ==
    IF reqs = <<>> THEN {[slots |-> <<>>, questions |-> <<>>, warnings |-> <<>>]}
    ELSE {[slots |-> <<a.questions>> \o b.slots,
           questions |-> [i \in DOMAIN a.questions |-> SampledQuestion(a.questions[i])]
                           \o b.questions,
           warnings |-> a.warnings \o b.warnings] :
          a \in SlotOutcomes(bank, Head(reqs), questions_per_skill),
          b \in SampleOutcomes(bank, Tail(reqs), questions_per_skill)}

\* A sampler that fails as soon as a slot had to warn.
SampleStatus_Strict(out) ==
    IF Len(out.questions) = 0 \/ Len(out.warnings) > 0 THEN "EmptyBank" ELSE "ok"

\* if len(sampled_questions) == 0: raise HTTPException(400)
SampleStatus(out) == IF Len(out.questions) = 0 THEN "EmptyBank" ELSE "ok"

----------------------------------------------------------------------------
(* The requests *)

NoArg == <<>>

\* The record kept of the request served last: what was asked, the response
\* status, and whether it is the request served just before, asked again.
Served(op, s, attempt, arg, status) ==
    [op |-> op, student |-> s, attempt |-> attempt, arg |-> arg, status |-> status,
     repeat |-> /\ last.op = op /\ last.student = s /\ last.attempt = attempt
                /\ last.arg = arg /\ last.status = status]

\* POST /transcript/upload: process_transcript_upload replaces the student's
\* CourseTaken rows and commits; the route then runs compute_skill_scores and
\* save_skill_profile, and swallows any exception of the two.
UploadTranscript(s, parsed) ==
    LET rows == {c @@ [student_id |-> s] : c \in parsed}
        ct   == ClearStudent(coursesTaken, s) (+) SetToBag(rows)
        ev   == FlatEvidence(ct, courseSkillMap, s)
    IN /\ IF parsed = {}
          THEN UNCHANGED <<coursesTaken, skillEvidence, skillProfileClaimed>>
          ELSE /\ coursesTaken' = ct
               /\ IF ev = EmptyBag
                  THEN \* the result lacks "total_skills": KeyError, nothing saved
                       UNCHANGED <<skillEvidence, skillProfileClaimed>>
                  ELSE /\ skillProfileClaimed' =
                              ClearStudent(skillProfileClaimed, s) (+) FlatProfiles(s, ev)
                       /\ skillEvidence' = ClearStudent(skillEvidence, s) (+) ev
       /\ last' = Served("upload", s, 0, NoArg, "ok")
       /\ UNCHANGED <<courseSkillMap, quizPlan, quizQuestion, quizAnswer,
                      studentSkillPortfolio, tx, questionBank>>

\* What compute_claimed_skills returns: <<skills_computed, evidence_rows>>,
\* both 0 on the two early returns.
ComputeResult(ct, map, s) ==
    LET ev == EvidenceData(ct, map, s)
    IN IF StudentCourses(ct, s) = {} \/ ev = EmptyBag THEN <<0, 0>>
       ELSE <<BagCardinality(ClaimedSkills(s, ev)), BagCardinality(ev)>>

\* A route that answers 404 when no evidence was built.
RecomputeStatus_OnEvidence(result) == IF result[2] = 0 THEN "NotFound" ELSE "ok"

\* recompute_skills: 404 when skills_computed is 0.
RecomputeStatus(result) == IF result[1] = 0 THEN "NotFound" ELSE "ok"

\* POST /students/{id}/skills/recompute: compute_claimed_skills; the two early
\* returns leave the flushed deletes uncommitted, and the session is closed
\* with them rolled back.
RecomputeSkills(s) ==
    LET ev == EvidenceData(coursesTaken, courseSkillMap, s)
        claimed == ClaimedSkills(s, ev)
        result == ComputeResult(coursesTaken, courseSkillMap, s)
    IN /\ IF StudentCourses(coursesTaken, s) = {} \/ ev = EmptyBag
          THEN UNCHANGED <<skillEvidence, skillProfileClaimed>>
          ELSE /\ skillProfileClaimed' =
                      ClearStudent(skillProfileClaimed, s) (+) claimed
               /\ skillEvidence' = ClearStudent(skillEvidence, s) (+) ev
       /\ last' = Served("recompute", s, 0, result, RecomputeStatus(result))
       /\ UNCHANGED <<coursesTaken, courseSkillMap, quizPlan, quizQuestion, quizAnswer,
                      studentSkillPortfolio, tx, questionBank>>

\* What is kept of a submission: the answers of an applied one; for a
\* rejected one only whether the attempt id exists (for some student) and
\* whether some submitted question id belongs to the attempt.
SubmitNote(s, attempt, answers, status) ==
    IF status = "ok" THEN AnswerMap(answers)
    ELSE <<\E q \in quizQuestion : q.attempt_id = attempt,
           \E q \in AttemptQuestions(quizQuestion, s, attempt) :
               q.question_id \in SubmittedIds(answers)>>

\* POST /students/{id}/quiz/{attempt_id}/submit: submit_quiz and
\* score_quiz_attempt; every check precedes the first write, and all writes
\* are committed together.
SubmitQuiz(s, attempt, answers) ==
    LET questions == AttemptQuestions(quizQuestion, s, attempt)
        status == SubmitStatus(s, attempt, answers)
        answer_map == AnswerMap(answers)
    IN /\ IF status = "ok"
          THEN /\ quizAnswer' = DeletePriorAnswers(quizAnswer, s, attempt)
                                   (+) NewAnswers(s, attempt, questions, answer_map)
               /\ studentSkillPortfolio' =
                      UpsertAll(studentSkillPortfolio,
                                BlendedRows(s, questions, answer_map, skillProfileClaimed))
          ELSE UNCHANGED <<quizAnswer, studentSkillPortfolio>>
       /\ last' = Served("submit", IF status = "ok" THEN s ELSE "",
                         IF status = "ok" THEN attempt ELSE 0,
                         SubmitNote(s, attempt, answers, status), status)
       /\ UNCHANGED <<coursesTaken, courseSkillMap, skillEvidence, skillProfileClaimed,
                      quizPlan, quizQuestion, tx, questionBank>>

\* POST /students/{id}/quiz/plan: create_student_quiz_plan and
\* create_quiz_plan.  A ValueError is answered 400 and nothing is written.
CreateQuizPlan(s, req) ==
    LET status == CreatePlanStatus(skillProfileClaimed, s, req)
        quiz_plan == NewPlan(skillProfileClaimed, s, req)
    IN /\ IF status = "ok"
          THEN /\ quizPlan' = ClearStudent(quizPlan, s) (+) SetToBag({quiz_plan})
               /\ last' = Served("plan", s, 0, <<quiz_plan, req>>, status)
          ELSE /\ UNCHANGED quizPlan
               /\ last' = Served("plan", s, 0, <<req>>, status)
       /\ UNCHANGED <<coursesTaken, courseSkillMap, skillEvidence, skillProfileClaimed,
                      quizQuestion, quizAnswer, studentSkillPortfolio, tx, questionBank>>

\* sample_quiz_from_bank: reads the bank and returns the questions and the
\* warnings, or raises; it writes nothing.  The record kept of the call holds
\* the requirements, questions_per_skill and what was returned (with the
\* rows taken per slot).
SampleQuizFromBank(reqs, questions_per_skill) ==
    \E out \in SampleOutcomes(questionBank, reqs, questions_per_skill) :
        LET status == SampleStatus(out)
        IN /\ last' = Served("sample", "", 0,
                             <<reqs, questions_per_skill,
                               IF status = "ok" THEN out
                               ELSE [slots |-> out.slots, questions |-> <<>>,
                                     warnings |-> <<>>]>>,
                             status)
           /\ UNCHANGED <<coursesTaken, courseSkillMap, skillEvidence, skillProfileClaimed,
                          quizPlan, quizQuestion, quizAnswer, studentSkillPortfolio, tx,
                          questionBank>>

----------------------------------------------------------------------------
(* Requests served by two workers at once.  Each request runs in a session
   of its own: what it reads, it reads from the committed rows; what it
   writes becomes visible to the other worker when it commits. *)

Workers == {"w1", "w2"}

Idle == [kind |-> "idle", student |-> "", attempt |-> 0, arg |-> NoArg,
         deleted |-> EmptyBag, added |-> EmptyBag, upserts |-> {}]

\* A commit that inserts whatever it was asked to insert.
UniqueViolation_Unchecked(portfolio, upserts) == FALSE

\* UniqueConstraint('student_id', 'skill_name'): the INSERT of a row whose
\* key a committed row already carries is refused.
UniqueViolation(portfolio, upserts) ==
    \E u \in upserts :
        ~u.found /\ PortfolioKeyRows(portfolio, u.row.student_id, u.row.skill_name) # {}

\* The pending UPDATE (the entry .first() returned) or INSERT of one skill.
ApplyUpsert(portfolio, u) ==
    IF u.found THEN UpsertPortfolio(portfolio, u.row)
    ELSE portfolio (+) SetToBag({u.row})

RECURSIVE ApplyUpserts(_, _)
ApplyUpserts(portfolio, upserts) ==
    IF upserts = {} THEN portfolio
    ELSE LET u == CHOOSE x \in upserts : TRUE
         IN ApplyUpserts(ApplyUpsert(portfolio, u), upserts \ {u})

\* score_quiz_attempt up to its last query: the checks, the rows the DELETE
\* matches, the answers to add and, per skill, the portfolio entry found.
SubmitBegin(w, s, attempt, answers) ==
    LET questions == AttemptQuestions(quizQuestion, s, attempt)
        status == SubmitStatus(s, attempt, answers)
        answer_map == AnswerMap(answers)
        rows == BlendedRows(s, questions, answer_map, skillProfileClaimed)
    IN /\ tx[w] = Idle
       /\ IF status = "ok"
          THEN /\ tx' = [tx EXCEPT ![w] =
                           [kind |-> "submit", student |-> s, attempt |-> attempt,
                            arg |-> answer_map,
                            deleted |-> quizAnswer (-) DeletePriorAnswers(quizAnswer, s, attempt),
                            added |-> NewAnswers(s, attempt, questions, answer_map),
                            upserts |-> {[row |-> r,
                                          found |-> PortfolioKeyRows(studentSkillPortfolio,
                                                        r.student_id, r.skill_name) # {}] :
                                         r \in rows}]]
               /\ UNCHANGED last
          ELSE /\ last' = Served("submit", "", 0, SubmitNote(s, attempt, answers, status), status)
               /\ UNCHANGED tx
       /\ UNCHANGED <<coursesTaken, courseSkillMap, skillEvidence, skillProfileClaimed,
                      quizPlan, quizQuestion, quizAnswer, studentSkillPortfolio,
                      questionBank>>

\* db.commit() of score_quiz_attempt; a refused INSERT fails the request and
\* the session's writes are dropped.
SubmitCommit(w) ==
    /\ tx[w].kind = "submit"
    /\ IF UniqueViolation(studentSkillPortfolio, tx[w].upserts)
       THEN /\ UNCHANGED <<quizAnswer, studentSkillPortfolio>>
            /\ last' = Served("submit", tx[w].student, tx[w].attempt, NoArg, "IntegrityError")
       ELSE /\ quizAnswer' = (quizAnswer (-) tx[w].deleted) (+) tx[w].added
            /\ studentSkillPortfolio' = ApplyUpserts(studentSkillPortfolio, tx[w].upserts)
            /\ last' = Served("submit", tx[w].student, tx[w].attempt, tx[w].arg, "ok")
    /\ tx' = [tx EXCEPT ![w] = Idle]
    /\ UNCHANGED <<coursesTaken, courseSkillMap, skillEvidence, skillProfileClaimed,
                   quizPlan, quizQuestion, questionBank>>

\* A flush that commits: the DELETE is seen by everyone at once.
Flushed_AutoCommit(table, deleted) == table (-) deleted

\* db.flush() after a DELETE: the statement is sent inside the session's open
\* transaction; the committed rows stay until db.commit().
Flushed(table, deleted) == table

\* create_quiz_plan up to the flush of its DELETE.
PlanBegin(w, s, req) ==
    LET status == CreatePlanStatus(skillProfileClaimed, s, req)
        deleted == RestrictBag(quizPlan, PlansOf(quizPlan, s))
    IN /\ tx[w] = Idle
       /\ IF status = "ok"
          THEN /\ tx' = [tx EXCEPT ![w] =
                           [kind |-> "plan", student |-> s, attempt |-> 0,
                            arg |-> <<NewPlan(skillProfileClaimed, s, req)>>,
                            deleted |-> deleted,
                            added |-> EmptyBag, upserts |-> {}]]
               /\ quizPlan' = Flushed(quizPlan, deleted)
               /\ UNCHANGED last
          ELSE /\ last' = Served("plan", s, 0, NoArg, status)
               /\ UNCHANGED <<tx, quizPlan>>
       /\ UNCHANGED <<coursesTaken, courseSkillMap, skillEvidence, skillProfileClaimed,
                      quizQuestion, quizAnswer, studentSkillPortfolio,
                      questionBank>>

\* db.add(quiz_plan); db.commit()
PlanCommit(w) ==
    /\ tx[w].kind = "plan"
    /\ quizPlan' = (quizPlan (-) tx[w].deleted) (+) SetToBag({tx[w].arg[1]})
    /\ last' = Served("plan", tx[w].student, 0, tx[w].arg, "ok")
    /\ tx' = [tx EXCEPT ![w] = Idle]
    /\ UNCHANGED <<coursesTaken, courseSkillMap, skillEvidence, skillProfileClaimed,
                   quizQuestion, quizAnswer, studentSkillPortfolio, questionBank>>

\* The student's rows of a table.
StudentRows(table, s) == RestrictBag(table, {r \in Rows(table) : r.student_id = s})

\* The next pending row a loop of db.add calls takes.
PickRow(bag) == CHOOSE r \in Rows(bag) : TRUE

\* compute_claimed_skills up to the flush of its two DELETEs and the
\* computation of the rows to add; on the early returns nothing is committed
\* and the session is closed.
RecomputeBegin(w, s) ==
    LET ev == EvidenceData(coursesTaken, courseSkillMap, s)
        claimed == ClaimedSkills(s, ev)
        result == ComputeResult(coursesTaken, courseSkillMap, s)
        deleted == StudentRows(skillProfileClaimed, s)
        evDeleted == StudentRows(skillEvidence, s)
    IN /\ tx[w] = Idle
       /\ skillProfileClaimed' = Flushed(skillProfileClaimed, deleted)
       /\ skillEvidence' = Flushed(skillEvidence, evDeleted)
       /\ IF StudentCourses(coursesTaken, s) = {} \/ ev = EmptyBag
          THEN /\ last' = Served("recompute", s, 0, result, RecomputeStatus(result))
               /\ UNCHANGED tx
          ELSE /\ tx' = [tx EXCEPT ![w] =
                           [kind |-> "recompute", student |-> s, attempt |-> 0,
                            arg |-> result, deleted |-> deleted, added |-> EmptyBag,
                            upserts |-> {}, pending |-> claimed,
                            evDeleted |-> evDeleted, evAdded |-> EmptyBag,
                            evPending |-> ev]]
               /\ UNCHANGED last
       /\ UNCHANGED <<coursesTaken, courseSkillMap, quizPlan, quizQuestion, quizAnswer,
                      studentSkillPortfolio, questionBank>>

\* One db.add: the SkillProfileClaimed rows first, then the SkillEvidence rows.
RecomputeAdd(w) ==
    /\ tx[w].kind = "recompute"
    /\ tx[w].pending # EmptyBag \/ tx[w].evPending # EmptyBag
    /\ IF tx[w].pending # EmptyBag
       THEN LET r == SetToBag({PickRow(tx[w].pending)})
            IN tx' = [tx EXCEPT ![w].pending = @ (-) r, ![w].added = @ (+) r]
       ELSE LET r == SetToBag({PickRow(tx[w].evPending)})
            IN tx' = [tx EXCEPT ![w].evPending = @ (-) r, ![w].evAdded = @ (+) r]
    /\ UNCHANGED <<coursesTaken, courseSkillMap, skillEvidence, skillProfileClaimed,
                   quizPlan, quizQuestion, quizAnswer, studentSkillPortfolio, last,
                   questionBank>>

\* db.commit() of compute_claimed_skills, after the last db.add.
RecomputeCommit(w) ==
    /\ tx[w].kind = "recompute"
    /\ tx[w].pending = EmptyBag /\ tx[w].evPending = EmptyBag
    /\ skillProfileClaimed' = (skillProfileClaimed (-) tx[w].deleted) (+) tx[w].added
    /\ skillEvidence' = (skillEvidence (-) tx[w].evDeleted) (+) tx[w].evAdded
    /\ last' = Served("recompute", tx[w].student, 0, tx[w].arg, RecomputeStatus(tx[w].arg))
    /\ tx' = [tx EXCEPT ![w] = Idle]
    /\ UNCHANGED <<coursesTaken, courseSkillMap, quizPlan, quizQuestion, quizAnswer,
                   studentSkillPortfolio, questionBank>>

\* The process serving a request dies, or the request fails, before its
\* db.commit(): the open transaction is rolled back.  The note keeps how many
\* rows were added and how many were still to add.
Crash(w) ==
    /\ tx[w].kind \in {"recompute", "plan"}
    /\ last' = Served(tx[w].kind, tx[w].student, 0,
                      IF tx[w].kind = "recompute"
                      THEN <<BagCardinality(tx[w].added (+) tx[w].evAdded),
                             BagCardinality(tx[w].pending (+) tx[w].evPending)>>
                      ELSE <<0, 1>>,
                      "crashed")
    /\ tx' = [tx EXCEPT ![w] = Idle]
    /\ UNCHANGED <<coursesTaken, courseSkillMap, skillEvidence, skillProfileClaimed,
                   quizPlan, quizQuestion, quizAnswer, studentSkillPortfolio,
                   questionBank>>

----------------------------------------------------------------------------
Init ==
    /\ coursesTaken = EmptyBag
    /\ courseSkillMap = SeededMap
    /\ skillEvidence = EmptyBag
    /\ skillProfileClaimed = EmptyBag
    /\ quizPlan = EmptyBag
    /\ quizQuestion = IssuedQuestions
    /\ quizAnswer = EmptyBag
    /\ studentSkillPortfolio = EmptyBag
    /\ last = [op |-> "none", student |-> "", attempt |-> 0, arg |-> NoArg,
               status |-> "ok", repeat |-> FALSE]
    /\ tx = [w \in Workers |-> Idle]
    /\ questionBank = SeededBank

Upload == \E s \in QuizTakers, parsed \in QuizTranscripts : UploadTranscript(s, parsed)

UploadAny == \E s \in Students, parsed \in Transcripts : UploadTranscript(s, parsed)

Recompute == \E s \in QuizTakers : RecomputeSkills(s)

RecomputeAny == \E s \in Students : RecomputeSkills(s)

Submit ==
    \E s \in Students, attempt \in AttemptIds(quizQuestion) :
        \E answers \in SubmitBodies(quizQuestion, s, attempt, Options) :
            SubmitQuiz(s, attempt, answers)

Next == Upload \/ Recompute \/ Submit

Spec == Init /\ [][Next]_vars

\* Submissions of one long single-skill attempt (a plan naming SQL more than
\* once yields QUESTIONS_PER_SKILL questions per mention).
LongAttempt ==
    {Question(i, 1, "s1", "SQL", "easy", IF i % 2 = 0 THEN "A" ELSE "B") : i \in 1..LongAttemptSize}

InitLong ==
    /\ coursesTaken = EmptyBag
    /\ courseSkillMap = SeededMap
    /\ skillEvidence = EmptyBag
    /\ skillProfileClaimed = EmptyBag
    /\ quizPlan = EmptyBag
    /\ quizQuestion = LongAttempt
    /\ quizAnswer = EmptyBag
    /\ studentSkillPortfolio = EmptyBag
    /\ last = [op |-> "none", student |-> "", attempt |-> 0, arg |-> NoArg,
               status |-> "ok", repeat |-> FALSE]
    /\ tx = [w \in Workers |-> Idle]
    /\ questionBank = SeededBank

SubmitLong ==
    \E s \in Students, attempt \in AttemptIds(quizQuestion) :
        \E answers \in SubmitBodies(quizQuestion, s, attempt, {"A"}) :
            SubmitQuiz(s, attempt, answers)

\* Submissions of the holder of an attempt over two skills, with the
\* transcript uploaded or recomputed in between.
InitMixed ==
    /\ coursesTaken = EmptyBag
    /\ courseSkillMap = SeededMap
    /\ skillEvidence = EmptyBag
    /\ skillProfileClaimed = EmptyBag
    /\ quizPlan = EmptyBag
    /\ quizQuestion = MixedQuestions
    /\ quizAnswer = EmptyBag
    /\ studentSkillPortfolio = EmptyBag
    /\ last = [op |-> "none", student |-> "", attempt |-> 0, arg |-> NoArg,
               status |-> "ok", repeat |-> FALSE]
    /\ tx = [w \in Workers |-> Idle]
    /\ questionBank = SeededBank

SubmitMixed ==
    \E q \in quizQuestion :
        \E answers \in AnswerLists({h.question_id : h \in quizQuestion}, Options) :
            SubmitQuiz(q.student_id, q.attempt_id, answers)

NextMixed == Upload \/ Recompute \/ SubmitMixed

SpecMixed == InitMixed /\ [][NextMixed]_vars

NextLong == SubmitLong

SpecLong == InitLong /\ [][NextLong]_vars

\* Submissions and plan requests of two workers, interleaved.
ConcBodies ==
    { <<[question_id |-> 1, selected_option |-> "A"]>>,
      <<[question_id |-> 1, selected_option |-> "B"]>> }

BeginSubmit ==
    \E w \in Workers, s \in Students, attempt \in AttemptIds(quizQuestion),
       answers \in ConcBodies : SubmitBegin(w, s, attempt, answers)

CommitSubmit == \E w \in Workers : SubmitCommit(w)

BeginPlan == \E w \in Workers, s \in QuizTakers, req \in PlanRequests : PlanBegin(w, s, req)

CommitPlan == \E w \in Workers : PlanCommit(w)

NextConc == Upload \/ BeginSubmit \/ CommitSubmit \/ BeginPlan \/ CommitPlan

SpecConc == Init /\ [][NextConc]_vars

\* One request at a time, taken step by step, with crashes: the uploads of a
\* quiz taker, recompute_skills and create_quiz_plan.
UploadTaker ==
    /\ tx["w1"] = Idle
    /\ \E s \in QuizTakers, parsed \in Transcripts : UploadTranscript(s, parsed)

BeginRecompute == \E s \in QuizTakers : RecomputeBegin("w1", s)

AddRecompute == RecomputeAdd("w1")

CommitRecompute == RecomputeCommit("w1")

BeginPlanAlone ==
    \E s \in QuizTakers, req \in PlanRequests : PlanBegin("w1", s, req)

CommitPlanAlone == PlanCommit("w1")

CrashAlone == Crash("w1")

NextAtomic ==
    \/ UploadTaker
    \/ BeginRecompute \/ AddRecompute \/ CommitRecompute
    \/ BeginPlanAlone \/ CommitPlanAlone
    \/ CrashAlone

SpecAtomic == Init /\ [][NextAtomic]_vars

\* A recompute_skills request on one worker and submissions that start on the
\* other worker while it is open; uploads come between the races.
UploadQuiet ==
    /\ \A w \in Workers : tx[w] = Idle
    /\ \E s \in QuizTakers, parsed \in Transcripts \cup QuizTranscripts :
          UploadTranscript(s, parsed)

BeginSubmitRace ==
    /\ tx["w1"].kind = "recompute"
    /\ \E q \in quizQuestion, answers \in ConcBodies :
          SubmitBegin("w2", q.student_id, q.attempt_id, answers)

CommitSubmitRace == SubmitCommit("w2")

NextRace ==
    \/ UploadQuiet
    \/ BeginRecompute \/ AddRecompute \/ CommitRecompute
    \/ BeginSubmitRace \/ CommitSubmitRace

SpecRace == InitMixed /\ [][NextRace]_vars

\* Every operation of the core, one request at a time, over three attempts of
\* two students: submissions (answers "A" to any issued question, so that
\* some are rejected), uploads, recomputes, plans and bank samples.
InitFrame ==
    /\ coursesTaken = EmptyBag
    /\ courseSkillMap = SeededMap
    /\ skillEvidence = EmptyBag
    /\ skillProfileClaimed = EmptyBag
    /\ quizPlan = EmptyBag
    /\ quizQuestion = FrameQuestions
    /\ quizAnswer = EmptyBag
    /\ studentSkillPortfolio = EmptyBag
    /\ last = [op |-> "none", student |-> "", attempt |-> 0, arg |-> NoArg,
               status |-> "ok", repeat |-> FALSE]
    /\ tx = [w \in Workers |-> Idle]
    /\ questionBank = SeededBank

SubmitFrame ==
    \E held \in {<<q.student_id, q.attempt_id>> : q \in quizQuestion} :
        \E answers \in AnswerLists({h.question_id : h \in quizQuestion}, {"A"}) :
            SubmitQuiz(held[1], held[2], answers)

PlanFrame == \E s \in QuizTakers, req \in PlanRequests : CreateQuizPlan(s, req)

SampleFrame ==
    \E reqs \in {l \in RequirementLists : Len(l) = 1} : SampleQuizFromBank(reqs, 1)

NextFrame == Upload \/ Recompute \/ SubmitFrame \/ PlanFrame \/ SampleFrame

SpecFrame == InitFrame /\ [][NextFrame]_vars

\* Automatic plans over every claimed profile of up to MaxClaimed skills.
InitAuto ==
    /\ coursesTaken = EmptyBag
    /\ courseSkillMap = SeededMap
    /\ skillEvidence = EmptyBag
    /\ skillProfileClaimed \in ClaimedProfiles
    /\ quizPlan = EmptyBag
    /\ quizQuestion = IssuedQuestions
    /\ quizAnswer = EmptyBag
    /\ studentSkillPortfolio = EmptyBag
    /\ last = [op |-> "none", student |-> "", attempt |-> 0, arg |-> NoArg,
               status |-> "ok", repeat |-> FALSE]
    /\ tx = [w \in Workers |-> Idle]
    /\ questionBank = SeededBank

PlanAuto == CreateQuizPlan("s1", PlanRequest(TRUE, <<>>))

NextAuto == PlanAuto

SpecAuto == InitAuto /\ [][NextAuto]_vars

\* The evidence builder and the aggregator alone, over every transcript.
NextSkills == UploadAny \/ RecomputeAny

SpecSkills == Init /\ [][NextSkills]_vars

\* The evidence builder and the aggregator over the wide transcripts.
UploadWide == \E s \in Students, parsed \in WideTranscripts : UploadTranscript(s, parsed)

NextWide == UploadWide \/ RecomputeAny

SpecWide == Init /\ [][NextWide]_vars

\* The sampler over every bank an administrator may have filled.
InitBank ==
    /\ coursesTaken = EmptyBag
    /\ courseSkillMap = SeededMap
    /\ skillEvidence = EmptyBag
    /\ skillProfileClaimed = EmptyBag
    /\ quizPlan = EmptyBag
    /\ quizQuestion = IssuedQuestions
    /\ quizAnswer = EmptyBag
    /\ studentSkillPortfolio = EmptyBag
    /\ last = [op |-> "none", student |-> "", attempt |-> 0, arg |-> NoArg,
               status |-> "ok", repeat |-> FALSE]
    /\ tx = [w \in Workers |-> Idle]
    /\ questionBank \in SUBSET BankPool

Sample ==
    \E reqs \in RequirementLists, questions_per_skill \in 1..MaxPerSlot :
        SampleQuizFromBank(reqs, questions_per_skill)

NextBank == Sample

SpecBank == InitBank /\ [][NextBank]_vars

\* Plans requested by one student between the uploads and recomputes of both.
CreatePlan == \E s \in QuizTakers, req \in PlanSelections : CreateQuizPlan(s, req)

NextPlan == UploadAny \/ RecomputeAny \/ CreatePlan

SpecPlan == Init /\ [][NextPlan]_vars

----------------------------------------------------------------------------
(* routes/quiz.py: generate_quiz_from_bank; the administrator's bank routes *)

\* {"easy": 2, "medium": 1, "hard": 1}, the mix of a skill the plan has none for.
DefaultMix == [easy |-> 2, medium |-> 1, hard |-> 1]

\* The keys of a mix in the order items() yields them.
Difficulties == <<"easy", "medium", "hard">>

MixCount(mix, difficulty) ==
    CASE difficulty = "easy" -> mix.easy
      [] difficulty = "medium" -> mix.medium
      [] difficulty = "hard" -> mix.hard

\* The inner loop: one requirement per difficulty whose count is above 0.
RECURSIVE SkillRequirements(_, _, _)
SkillRequirements(skill, mix, from) ==
    IF from > Len(Difficulties) THEN <<>>
    ELSE (IF MixCount(mix, Difficulties[from]) > 0
          THEN <<Slot(skill, Difficulties[from])>> ELSE <<>>)
            \o SkillRequirements(skill, mix, from + 1)

\* skill_difficulty_requirements
RECURSIVE PlanRequirements(_, _)
PlanRequirements(skills, difficulty_mix) ==
    IF skills = <<>> THEN <<>>
    ELSE LET skill == Head(skills)
             skill_difficulty_mix == IF skill \in DOMAIN difficulty_mix
                                     THEN difficulty_mix[skill] ELSE DefaultMix
         IN SkillRequirements(skill, skill_difficulty_mix, 1)
               \o PlanRequirements(Tail(skills), difficulty_mix)

\* A QuizQuestion that leaves the answer with the bank.
IssuedQuestion_NoCopy(q_data, id, attempt, s) ==
    Question(id, attempt, s, q_data.skill_name, q_data.difficulty, "")

\* The QuizQuestion row created for one sampled question.
IssuedQuestion(q_data, id, attempt, s) ==
    Question(id, attempt, s, q_data.skill_name, q_data.difficulty, q_data.correct_option)

\* The keys the store hands out: one above the greatest in the table.
NextId(ids) == IF ids = {} THEN 1 ELSE (CHOOSE m \in ids : \A i \in ids : i <= m) + 1

\* POST /students/{id}/quiz/from-bank.  The record kept of the call holds
\* the plan read and what the sampler returned.
GenerateQuizFromBank(s) ==
    LET plans == PlansOf(quizPlan, s)
        refused(status) == /\ UNCHANGED quizQuestion
                           /\ last' = Served("generate", s, 0, NoArg, status)
    IN /\ IF plans = {} THEN refused("NoPlan")
          ELSE \E quiz_plan \in plans :
                  IF quiz_plan.skills = <<>> THEN refused("NoSkills")
                  ELSE LET reqs == PlanRequirements(quiz_plan.skills, quiz_plan.difficulty_mix)
                       IN \E out \in SampleOutcomes(questionBank, reqs, 1) :
                             IF SampleStatus(out) # "ok" THEN refused("EmptyBank")
                             ELSE LET attempt == NextId({q.attempt_id : q \in quizQuestion})
                                      first == NextId({q.question_id : q \in quizQuestion})
                                  IN /\ quizQuestion' = quizQuestion \cup
                                            {IssuedQuestion(out.questions[i], first + i - 1,
                                                            attempt, s) :
                                               i \in DOMAIN out.questions}
                                     /\ last' = Served("generate", s, attempt,
                                                       <<quiz_plan, out>>, "ok")
       /\ UNCHANGED <<coursesTaken, courseSkillMap, skillEvidence, skillProfileClaimed,
                      quizPlan, quizAnswer, studentSkillPortfolio, tx, questionBank>>

\* DELETE /admin/question-bank/clear: the questions of one skill, or all of
\* them when no skill (or an empty one) is named.
ClearQuestionBank(skill_name) ==
    /\ questionBank' = IF skill_name # ""
                       THEN {q \in questionBank : q.skill_name # skill_name}
                       ELSE {}
    /\ last' = Served("clear", "", 0, <<skill_name>>, "ok")
    /\ UNCHANGED <<coursesTaken, courseSkillMap, skillEvidence, skillProfileClaimed,
                   quizPlan, quizQuestion, quizAnswer, studentSkillPortfolio, tx>>

\* The rows import_questions_from_json adds from one file, with the keys the
\* store gives them.
RECURSIVE Imported(_, _, _)
Imported(bank, file, overwrite) ==
    IF file = <<>> THEN bank
    ELSE LET q_data == Head(file)
             existing == \E q \in bank : /\ q.skill_name = q_data.skill_name
                                         /\ q.question_text = q_data.question_text
             added == IF existing /\ ~overwrite THEN bank
                      ELSE bank \cup {BankQuestion(NextId({q.id : q \in bank}),
                                                   q_data.skill_name, q_data.difficulty,
                                                   q_data.question_text,
                                                   q_data.correct_option)}
         IN Imported(added, Tail(file), overwrite)

\* POST /admin/questions/restore with the file of one skill on disk: 404
\* when nothing was imported, after the deletion was committed.
RestoreQuestionBank(clear_existing, file) ==
    LET kept == IF clear_existing THEN {} ELSE questionBank
        bank == Imported(kept, file, clear_existing)
    IN /\ questionBank' = bank
       /\ last' = Served("restore", "", 0, <<clear_existing, file>>,
                         IF bank = kept THEN "NotFound" ELSE "ok")
       /\ UNCHANGED <<coursesTaken, courseSkillMap, skillEvidence, skillProfileClaimed,
                      quizPlan, quizQuestion, quizAnswer, studentSkillPortfolio, tx>>

\* The question files on disk: the SQL questions of the seeded bank with
\* other answers and one more question, or no question at all.
QuestionFile(skill, difficulty, text, correct) ==
    [skill_name |-> skill, difficulty |-> difficulty, question_text |-> text,
     correct_option |-> correct]

QuestionFiles ==
    { << QuestionFile("SQL", "easy", "sql-e1", "B"), QuestionFile("SQL", "medium", "sql-m1", "B"),
         QuestionFile("SQL", "hard", "sql-h2", "B") >>,
      <<>> }

\* The claimed profile of the student who takes quizzes from the bank.
FreezeProfile ==
    SetToBag({[student_id |-> "s1", skill_name |-> "SQL", claimed_score |-> 60 * ScoreOne,
               claimed_level |-> determine_skill_level(60 * ScoreOne),
               confidence |-> 2000]})

\* Quizzes drawn from the bank and submitted while the administrator clears
\* and restores the bank.
InitFreeze ==
    /\ coursesTaken = EmptyBag
    /\ courseSkillMap = SeededMap
    /\ skillEvidence = EmptyBag
    /\ skillProfileClaimed = FreezeProfile
    /\ quizPlan = EmptyBag
    /\ quizQuestion = {}
    /\ quizAnswer = EmptyBag
    /\ studentSkillPortfolio = EmptyBag
    /\ last = [op |-> "none", student |-> "", attempt |-> 0, arg |-> NoArg,
               status |-> "ok", repeat |-> FALSE]
    /\ tx = [w \in Workers |-> Idle]
    /\ questionBank = SeededBank

Generate ==
    \E s \in QuizTakers :
        /\ Cardinality({q.attempt_id : q \in quizQuestion}) < MaxAttempts
        /\ GenerateQuizFromBank(s)

ClearBank == \E skill_name \in Skills \cup {""} : ClearQuestionBank(skill_name)

RestoreBank ==
    \E clear_existing \in BOOLEAN, file \in QuestionFiles :
        RestoreQuestionBank(clear_existing, file)

\* Every question of an issued attempt answered with the same option; the
\* questions of an attempt carry consecutive keys.
SubmitFreeze ==
    \E held \in {<<q.student_id, q.attempt_id>> : q \in quizQuestion}, o \in Options :
        LET ids == {q.question_id : q \in AttemptQuestions(quizQuestion, held[1], held[2])}
            low == CHOOSE m \in ids : \A i \in ids : m <= i
        IN SubmitQuiz(held[1], held[2],
                      [i \in 1..Cardinality(ids) |->
                          [question_id |-> low + i - 1, selected_option |-> o]])

NextFreeze == PlanFrame \/ Generate \/ ClearBank \/ RestoreBank \/ SubmitFreeze

SpecFreeze == InitFreeze /\ [][NextFreeze]_vars

----------------------------------------------------------------------------
(* Properties of the evidence builder and the claimed-score aggregator *)

EvidenceOf(s, skill) ==
    {e \in Rows(skillEvidence) : e.student_id = s /\ e.skill_name = skill}

ClaimedOf(s, skill) ==
    {p \in Rows(skillProfileClaimed) : p.student_id = s /\ p.skill_name = skill}

SummedEvidenceWeight(s, skill) ==
    SumF([e \in EvidenceOf(s, skill) |-> skillEvidence[e] * e.evidence_weight],
         EvidenceOf(s, skill))

\* C1: a recompute_skills call that directly follows a recompute_skills call
\* for the same student leaves SkillEvidence and SkillProfileClaimed exactly
\* as the first call left them (same rows, same values, same multiplicity).
C1_RecomputeIdempotent ==
    [][(/\ last.op = "recompute" /\ last'.op = "recompute"
        /\ last'.student = last.student)
       => /\ skillEvidence' = skillEvidence
          /\ skillProfileClaimed' = skillProfileClaimed]_vars

\* A second recompute in a row for a student who has evidence and claimed rows.
C1_Witness ==
    /\ last.op = "recompute" /\ last.repeat /\ last.status = "ok"
    /\ \E p \in Rows(skillProfileClaimed) : p.student_id = last.student
    /\ \E e \in Rows(skillEvidence) : e.student_id = last.student

\* C2: a (student, skill) whose evidence rows sum to evidence weight 0 has
\* no SkillProfileClaimed row, whichever operation wrote the profile.
C2_NoEvidenceNoClaim ==
    \A s \in Students : \A skill \in Skills :
        SummedEvidenceWeight(s, skill) = 0 => ClaimedOf(s, skill) = {}

\* C3: a SkillProfileClaimed row exists for (student, skill) exactly when a
\* SkillEvidence row exists for it.
C3_ClaimedIffEvidence ==
    \A s \in Students : \A skill \in Skills :
        ClaimedOf(s, skill) # {} <=> EvidenceOf(s, skill) # {}


MappedCourses(s) ==
    {c \in Rows(coursesTaken) :
        /\ c.student_id = s
        /\ \E m \in Rows(courseSkillMap) : m.course_code = c.course_code}

\* C15: a recompute for a student with no courses, or with no mapped course,
\* does not raise: it returns skills_computed = 0 and evidence_rows = 0 and
\* the route answers NotFound; NotFound is answered exactly when
\* skills_computed = 0; and when some course is mapped the unmapped ones are
\* skipped: evidence is built for the mapped courses only, one row per
\* mapping.
C15_NoDataIsNotFound ==
    [][last'.op = "recompute" =>
        LET s == last'.student
            mapped == MappedCourses(s)
            joins == {p \in mapped \X Rows(courseSkillMap) :
                         p[2].course_code = p[1].course_code}
        IN /\ last'.status \in {"ok", "NotFound"}
           /\ mapped = {} => last'.arg = <<0, 0>> /\ last'.status = "NotFound"
           /\ last'.status = "NotFound" <=> last'.arg[1] = 0
           /\ mapped # {} =>
                /\ last'.arg[2] = Cardinality(joins)
                /\ \A e \in Rows(skillEvidence') :
                      e.student_id = s =>
                         \E c \in mapped : c.course_code = e.course_code]_vars

\* A recompute answered NotFound for a student whose only course has no
\* mapping.
C15_Witness ==
    /\ last.op = "recompute" /\ last.status = "NotFound" /\ last.arg = <<0, 0>>
    /\ \E c \in Rows(coursesTaken) : c.student_id = last.student
    /\ MappedCourses(last.student) = {}

SummedContribution(s, skill) ==
    SumF([e \in EvidenceOf(s, skill) |-> skillEvidence[e] * e.contribution],
         EvidenceOf(s, skill))

\* C16: after a recompute_skills that built evidence, every evidence row of
\* the student has evidence_weight = map_weight * credits * recency and
\* contribution = evidence_weight * grade_norm, and every skill whose
\* evidence weights sum to more than 0 has one claimed row with
\* claimed_score = 100 * (sum of contribution) / (sum of evidence_weight) and
\* claimed_level Beginner below 50, Intermediate from 50 and below 75,
\* Advanced from 75.  (Contributions are in 1e-7 and weights in 1e-4, so the
\* score in 1e-4 is 1000 * tc / tw.)
C16_ClaimedScoreFormula ==
    (last.op = "recompute" /\ last.arg[2] > 0) =>
        \A skill \in Skills :
            LET E  == EvidenceOf(last.student, skill)
                tw == SummedEvidenceWeight(last.student, skill)
                tc == SummedContribution(last.student, skill)
            IN /\ \A e \in E :
                     /\ e.evidence_weight = e.map_weight * e.credits * e.recency
                     /\ e.contribution = e.evidence_weight * e.grade_norm
               /\ tw > 0 =>
                     \E p \in ClaimedOf(last.student, skill) :
                        /\ ClaimedOf(last.student, skill) = {p}
                        /\ skillProfileClaimed[p] = 1
                        /\ p.claimed_score = MulDiv(tc, MilliOne, tw)
                        /\ p.claimed_score < 50 * ScoreOne
                              => p.claimed_level = "Beginner"
                        /\ (50 * ScoreOne <= p.claimed_score
                            /\ p.claimed_score < 75 * ScoreOne)
                              => p.claimed_level = "Intermediate"
                        /\ p.claimed_score >= 75 * ScoreOne
                              => p.claimed_level = "Advanced"

\* A recompute over two courses of one skill with different grades, credits
\* and recencies.
C16_Witness ==
    /\ last.op = "recompute" /\ last.status = "ok"
    /\ \E e1, e2 \in EvidenceOf(last.student, "SQL") :
          /\ e1.grade_norm # e2.grade_norm
          /\ e1.evidence_weight # e2.evidence_weight
          /\ e1.evidence_weight > 0 /\ e2.evidence_weight > 0
    /\ \E p \in ClaimedOf(last.student, "SQL") :
          0 < p.claimed_score /\ p.claimed_score < 100 * ScoreOne

\* C25: after a recompute_skills that built evidence, every evidence row of
\* the student carries the recency of its CourseTaken row: the decay of
\* max(0, 4 - academic_year) when the row has an academic_year, else the
\* decay of the years since year_taken when it has a year_taken, else 1.0;
\* and the stored recency is above 0 and at most 1.
C25_RecencyRule ==
    (last.op = "recompute" /\ last.arg[2] > 0) =>
        \A e \in Rows(skillEvidence) : \A c \in StudentCourses(coursesTaken, last.student) :
            (e.student_id = last.student /\ e.course_code = c.course_code) =>
                /\ e.recency =
                      IF c.academic_year # None
                      THEN ExpDecay(Max(0, CURRENT_ACADEMIC_YEAR - c.academic_year))
                      ELSE IF c.year_taken # None
                           THEN ExpDecay(Max(0, ClockYear - c.year_taken))
                           ELSE MilliOne
                /\ 0 < e.recency /\ e.recency <= MilliOne

\* C27: an upload that parsed courses leaves the student with the
\* SkillEvidence and SkillProfileClaimed rows that compute_claimed_skills
\* builds from the CourseTaken and CourseSkillMap rows the upload left.
C27_UploadEqualsRecompute ==
    [][\A s \in Students, parsed \in Transcripts \ {{}} :
          UploadTranscript(s, parsed) =>
             LET ev == EvidenceData(coursesTaken', courseSkillMap', s)
             IN /\ StudentRows(skillEvidence', s) = ev
                /\ StudentRows(skillProfileClaimed', s) = ClaimedSkills(s, ev)]_vars

----------------------------------------------------------------------------
(* Quiz submission *)

\* The questions the attempt holds for the student, read off the table.
HeldQuestions(s, attempt) ==
    {q \in quizQuestion : q.attempt_id = attempt /\ q.student_id = s}

AnswersOf(attempt) == {a \in Rows(quizAnswer) : a.attempt_id = attempt}

\* C4: submitting the same answers for the same attempt twice in a row leaves
\* the portfolio rows as the first submission wrote them and leaves the
\* attempt with as many QuizAnswer rows as before: one per question.
C4_ResubmissionIdempotent ==
    [][(last'.op = "submit" /\ last'.status = "ok" /\ last'.repeat)
       => /\ studentSkillPortfolio' = studentSkillPortfolio
          /\ CountRows(quizAnswer', {a \in Rows(quizAnswer') : a.attempt_id = last'.attempt})
               = CountRows(quizAnswer, AnswersOf(last'.attempt))
          /\ \A q \in {h \in quizQuestion' : /\ h.attempt_id = last'.attempt
                                             /\ h.student_id = last'.student} :
                CountRows(quizAnswer', {a \in Rows(quizAnswer') :
                                          /\ a.attempt_id = last'.attempt
                                          /\ a.question_id = q.question_id}) = 1]_vars

C4_Witness ==
    /\ last.op = "submit" /\ last.status = "ok" /\ last.repeat
    /\ CountRows(quizAnswer, AnswersOf(last.attempt)) = 3
    /\ \E r \in Rows(studentSkillPortfolio) : r.student_id = last.student

\* C5: a submission naming a question id outside the student's attempt is
\* answered InvalidQuestionId, and a submission answered that way leaves
\* QuizAnswer and StudentSkillPortfolio as they were, valid answers included.
C5_InvalidQuestionRejectsAll ==
    /\ [](\A s \in Students : \A attempt \in AttemptIds(quizQuestion) :
            \A answers \in SubmitBodies(quizQuestion, s, attempt, Options) :
                (/\ HeldQuestions(s, attempt) # {}
                 /\ \E i \in DOMAIN answers :
                        \A q \in HeldQuestions(s, attempt) :
                            q.question_id # answers[i].question_id)
                => SubmitStatus(s, attempt, answers) = "InvalidQuestionId")
    /\ [][(last'.op = "submit" /\ last'.status = "InvalidQuestionId")
          => UNCHANGED <<quizAnswer, studentSkillPortfolio>>]_vars

C5_Witness ==
    /\ last.op = "submit" /\ last.status = "InvalidQuestionId"
    /\ last.arg[2]
    /\ quizAnswer # EmptyBag
    /\ studentSkillPortfolio # EmptyBag

C7_BlendingCap ==
    /\ \A r \in Rows(studentSkillPortfolio) :
          r.quiz_weight <= 80 /\ r.quiz_weight + r.claimed_weight = 100
    /\ (last.op = "submit" /\ last.status = "ok")
       => \A skill \in {q.skill_name : q \in HeldQuestions(last.student, last.attempt)} :
             LET n == Cardinality({q \in HeldQuestions(last.student, last.attempt) :
                                      q.skill_name = skill})
                 w == IF 50 + 5 * n < 80 THEN 50 + 5 * n ELSE 80
             IN /\ \E r \in Rows(studentSkillPortfolio) :
                      r.student_id = last.student /\ r.skill_name = skill
                /\ \A r \in Rows(studentSkillPortfolio) :
                      (r.student_id = last.student /\ r.skill_name = skill)
                      => r.quiz_weight = w /\ r.claimed_weight = 100 - w

C7_Witness ==
    /\ last.op = "submit" /\ last.status = "ok"
    /\ \E r \in Rows(studentSkillPortfolio) :
          /\ r.student_id = last.student
          /\ 50 + 5 * r.total_questions > 80
          /\ r.quiz_weight = 80 /\ r.claimed_weight = 20

\* C8: the rows of the submission just served carry the student's current
\* claimed score (0 without one), final_score = quiz_weight * verified_score
\* + claimed_weight * claimed_score, and the level of that score under the
\* thresholds 50 and 75.
C8_FinalScoreBlend ==
    (last.op = "submit" /\ last.status = "ok")
    => \A skill \in {q.skill_name : q \in HeldQuestions(last.student, last.attempt)} :
          LET mine == {p \in Rows(skillProfileClaimed) :
                          p.student_id = last.student /\ p.skill_name = skill}
          IN /\ \E r \in Rows(studentSkillPortfolio) :
                   r.student_id = last.student /\ r.skill_name = skill
             /\ \A r \in Rows(studentSkillPortfolio) :
                   (r.student_id = last.student /\ r.skill_name = skill)
                   => /\ mine = {} => r.claimed_score = 0
                      /\ \A p \in mine : r.claimed_score = p.claimed_score
                      /\ r.verified_score
                           = (100 * ScoreOne * r.correct_count) \div r.total_questions
                      /\ r.final_score
                           = (r.quiz_weight * r.verified_score
                              + r.claimed_weight * r.claimed_score) \div 100
                      /\ r.final_level
                           = IF r.final_score < 50 * ScoreOne THEN "Beginner"
                             ELSE IF r.final_score < 75 * ScoreOne THEN "Intermediate"
                             ELSE "Advanced"

\* The worked example: 3 questions, 2 correct, claimed 40.
C8_Witness ==
    /\ last.op = "submit" /\ last.status = "ok"
    /\ \E r \in Rows(studentSkillPortfolio) :
          /\ r.student_id = last.student
          /\ r.total_questions = 3 /\ r.correct_count = 2
          /\ r.claimed_score = 40 * ScoreOne
          /\ r.quiz_weight = 65
          /\ r.final_score >= 573300 /\ r.final_score < 573400
          /\ r.final_level = "Intermediate"

\* C17: after an accepted submission every question of the attempt has one
\* QuizAnswer row; a question without a submitted answer has selected_option
\* "UNANSWERED" and is_correct FALSE; and for each skill of the attempt the
\* portfolio row counts all of the attempt's questions of the skill in
\* total_questions, the correct rows in correct_count, and has
\* verified_score = 100 * correct_count / total_questions.
C17_UnansweredCounts ==
    (last.op = "submit" /\ last.status = "ok") =>
        LET held == HeldQuestions(last.student, last.attempt)
            rows == {a \in AnswersOf(last.attempt) : a.student_id = last.student}
        IN /\ \A q \in held :
                 \E a \in rows :
                    /\ a.question_id = q.question_id
                    /\ quizAnswer[a] = 1
                    /\ \A b \in rows : b.question_id = q.question_id => b = a
                    /\ q.question_id \notin DOMAIN last.arg
                          => a.selected_option = "UNANSWERED" /\ ~a.is_correct
           /\ \A skill \in {q.skill_name : q \in held} :
                 LET total == Cardinality({q \in held : q.skill_name = skill})
                     correct == Cardinality({q \in held :
                                    /\ q.skill_name = skill
                                    /\ \E a \in rows : /\ a.question_id = q.question_id
                                                       /\ a.is_correct})
                 IN \E r \in Rows(studentSkillPortfolio) :
                       /\ r.student_id = last.student /\ r.skill_name = skill
                       /\ r.total_questions = total
                       /\ r.correct_count = correct
                       /\ r.verified_score = (100 * ScoreOne * correct) \div total

\* One SQL question answered rightly, the other SQL question and the Python
\* question not answered: SQL is verified at 50, Python at 0.
C17_Witness ==
    /\ last.op = "submit" /\ last.status = "ok"
    /\ Cardinality(DOMAIN last.arg) = 1
    /\ \E a \in AnswersOf(last.attempt) : a.selected_option = "UNANSWERED"
    /\ \E r \in Rows(studentSkillPortfolio) :
          /\ r.skill_name = "SQL" /\ r.total_questions = 2 /\ r.correct_count = 1
          /\ r.verified_score = 50 * ScoreOne
    /\ \E r \in Rows(studentSkillPortfolio) :
          /\ r.skill_name = "Python" /\ r.total_questions = 1
          /\ r.verified_score = 0


\* C18: in every step other than an upload, the committed SkillEvidence and
\* SkillProfileClaimed rows of a student either stay as they are, or are
\* replaced together by the complete new sets of a recompute that commits;
\* the committed QuizPlan rows of a student either stay or are replaced by
\* the one new plan of a create_quiz_plan that commits; a crash before the
\* commit leaves all three tables as they were.
C18_AtomicReplace ==
    [][/\ last'.op # "upload" =>
            \A s \in Students :
               \/ /\ StudentRows(skillProfileClaimed', s) = StudentRows(skillProfileClaimed, s)
                  /\ StudentRows(skillEvidence', s) = StudentRows(skillEvidence, s)
               \/ \E w \in Workers :
                     /\ tx[w].kind = "recompute" /\ tx[w].student = s
                     /\ last'.op = "recompute" /\ last'.status # "crashed"
                     /\ StudentRows(skillProfileClaimed', s)
                           = tx[w].added (+) tx[w].pending
                     /\ StudentRows(skillEvidence', s)
                           = tx[w].evAdded (+) tx[w].evPending
       /\ \A s \in Students :
               \/ StudentRows(quizPlan', s) = StudentRows(quizPlan, s)
               \/ \E w \in Workers :
                     /\ tx[w].kind = "plan" /\ tx[w].student = s
                     /\ last'.op = "plan" /\ last'.status = "ok"
                     /\ StudentRows(quizPlan', s) = SetToBag({tx[w].arg[1]})
       /\ last'.status = "crashed" =>
               UNCHANGED <<skillEvidence, skillProfileClaimed, quizPlan>>]_vars

\* A recompute that crashed after it had added some of its rows and before it
\* had added the others, for a student who had rows before.
C18_Witness ==
    /\ last.op = "recompute" /\ last.status = "crashed"
    /\ last.arg[1] > 0 /\ last.arg[2] > 0
    /\ \E e \in Rows(skillEvidence) : e.student_id = last.student
    /\ \E p \in Rows(skillProfileClaimed) : p.student_id = last.student


\* C19: once recompute_skills has returned for a student, the student's
\* SkillEvidence and SkillProfileClaimed rows are exactly the rows that
\* follow from the student's CourseTaken rows: none at all when the student
\* has no courses or no mapped course.
C19_RecomputeTotal ==
    (last.op = "recompute" /\ last.status # "crashed") =>
        LET s  == last.student
            ev == EvidenceData(coursesTaken, courseSkillMap, s)
        IN /\ StudentRows(skillEvidence, s) = ev
           /\ StudentRows(skillProfileClaimed, s) = ClaimedSkills(s, ev)


\* The claimed_score a profile holds for a skill, 0 when it holds none.
ScoreIn(profile, skill) ==
    LET mine == {p \in Rows(profile) : p.skill_name = skill}
    IN IF mine = {} THEN 0 ELSE (CHOOSE p \in mine : TRUE).claimed_score

\* C20: a submission that starts while a recompute_skills of the same
\* student is open blends every skill with the claimed scores of the profile
\* the recompute found, or every skill with those of the profile the
\* recompute will commit; and what it commits are those rows.
C20_SubmitSeesWholeProfile ==
    [][/\ (tx["w2"] = Idle /\ tx'["w2"].kind = "submit"
           /\ tx["w1"].kind = "recompute" /\ tx["w1"].student = tx'["w2"].student)
          => LET before == tx["w1"].deleted
                 after  == tx["w1"].added (+) tx["w1"].pending
                 used   == tx'["w2"].upserts
             IN /\ used # {}
                /\ \/ \A u \in used :
                         u.row.claimed_score = ScoreIn(before, u.row.skill_name)
                   \/ \A u \in used :
                         u.row.claimed_score = ScoreIn(after, u.row.skill_name)
       /\ (tx["w2"].kind = "submit" /\ tx'["w2"] = Idle
           /\ last'.op = "submit" /\ last'.status = "ok")
          => \A u \in tx["w2"].upserts :
                \E r \in Rows(studentSkillPortfolio') :
                   /\ r.student_id = u.row.student_id
                   /\ r.skill_name = u.row.skill_name
                   /\ r.claimed_score = u.row.claimed_score]_vars

\* A submission open together with a recompute that has added some of its
\* rows, the old and the new SQL score being different and not 0.
C20_Witness ==
    /\ tx["w1"].kind = "recompute" /\ tx["w2"].kind = "submit"
    /\ tx["w1"].student = tx["w2"].student
    /\ tx["w1"].added # EmptyBag
    /\ ScoreIn(tx["w1"].deleted, "SQL") # 0
    /\ ScoreIn(tx["w1"].added, "SQL") # 0
    /\ ScoreIn(tx["w1"].deleted, "SQL") # ScoreIn(tx["w1"].added, "SQL")
    /\ \E u \in tx["w2"].upserts :
          /\ u.row.skill_name = "SQL"
          /\ u.row.claimed_score = ScoreIn(tx["w1"].deleted, "SQL")


\* C21: no step removes the portfolio row of a (student, skill); the
\* portfolio changes only in a step that serves an accepted submission, and
\* then only in the rows of the submitting student for the skills that have
\* questions in the attempt; uploads, recomputes, plans and bank samples
\* leave it as it is.
C21_PortfolioFrame ==
    [][/\ \A r \in Rows(studentSkillPortfolio) :
             \E n \in Rows(studentSkillPortfolio') :
                n.student_id = r.student_id /\ n.skill_name = r.skill_name
       /\ studentSkillPortfolio' # studentSkillPortfolio
             => last'.op = "submit" /\ last'.status = "ok"
       /\ \A s \in Students : \A skill \in Skills :
             RestrictBag(studentSkillPortfolio',
                         {r \in Rows(studentSkillPortfolio') :
                             r.student_id = s /\ r.skill_name = skill})
               # RestrictBag(studentSkillPortfolio,
                             {r \in Rows(studentSkillPortfolio) :
                                 r.student_id = s /\ r.skill_name = skill})
             => /\ s = last'.student
                /\ \E q \in quizQuestion : /\ q.student_id = s
                                           /\ q.attempt_id = last'.attempt
                                           /\ q.skill_name = skill
       /\ last'.op \in {"upload", "recompute", "plan", "sample"}
             => UNCHANGED studentSkillPortfolio]_vars

\* An accepted submission of s1's SQL-only attempt, with the Python row of s1
\* and the SQL row of s2 in the portfolio.
C21_Witness ==
    /\ last.op = "submit" /\ last.status = "ok"
    /\ last.student = "s1" /\ last.attempt = 2
    /\ \E r \in Rows(studentSkillPortfolio) :
          r.student_id = "s1" /\ r.skill_name = "Python"
    /\ \E r \in Rows(studentSkillPortfolio) :
          r.student_id = "s2" /\ r.skill_name = "SQL"

\* C22: the portfolio rows of the skills of the submission served last are
\* the rows of that submission alone: total_questions counts the attempt's
\* questions of the skill, correct_count its questions answered rightly in
\* this submission, verified_score is 100 * correct_count / total_questions,
\* claimed_score is the student's claimed score, and there is one row per
\* skill, whatever was submitted before.
C22_LastWriteWins ==
    (last.op = "submit" /\ last.status = "ok") =>
        LET held == HeldQuestions(last.student, last.attempt)
        IN \A skill \in {q.skill_name : q \in held} :
              LET mine    == {q \in held : q.skill_name = skill}
                  right   == {q \in mine : /\ q.question_id \in DOMAIN last.arg
                                           /\ last.arg[q.question_id] = q.correct_option}
                  total   == Cardinality(mine)
                  correct == Cardinality(right)
                  w       == IF 50 + 5 * total < 80 THEN 50 + 5 * total ELSE 80
                  claimed == ScoreIn(StudentRows(skillProfileClaimed, last.student), skill)
                  rows    == {r \in Rows(studentSkillPortfolio) :
                                 r.student_id = last.student /\ r.skill_name = skill}
              IN /\ Cardinality(rows) = 1
                 /\ \A r \in rows :
                       /\ studentSkillPortfolio[r] = 1
                       /\ r.total_questions = total
                       /\ r.correct_count = correct
                       /\ r.verified_score = (100 * ScoreOne * correct) \div total
                       /\ r.claimed_score = claimed
                       /\ r.final_score
                            = (w * r.verified_score + (100 - w) * claimed) \div 100

\* The SQL-only attempt of s1, answered wrongly, submitted after the attempt
\* whose SQL question was answered rightly: the SQL row shows 0 of 1.
C22_Witness ==
    /\ last.op = "submit" /\ last.status = "ok"
    /\ last.student = "s1" /\ last.attempt = 2
    /\ \E a \in Rows(quizAnswer) :
          a.attempt_id = 1 /\ a.question_id = 1 /\ a.is_correct
    /\ \E r \in Rows(studentSkillPortfolio) :
          /\ r.student_id = "s1" /\ r.skill_name = "SQL"
          /\ r.correct_count = 0 /\ r.total_questions = 1 /\ r.verified_score = 0


\* a comes strictly before b in the order by ascending confidence, then
\* ascending |claimed_score - 70|, then descending claimed_score.
StrictlyBefore(a, b) ==
    LET da == IF a.claimed_score >= 70 * ScoreOne THEN a.claimed_score - 70 * ScoreOne
              ELSE 70 * ScoreOne - a.claimed_score
        db == IF b.claimed_score >= 70 * ScoreOne THEN b.claimed_score - 70 * ScoreOne
              ELSE 70 * ScoreOne - b.claimed_score
    IN \/ a.confidence < b.confidence
       \/ a.confidence = b.confidence /\ da < db
       \/ a.confidence = b.confidence /\ da = db /\ a.claimed_score > b.claimed_score

\* C23: a plan created without a selection lists min(5, number of claimed
\* skills) different claimed skills of the student, in the order of the
\* three keys, and no claimed skill left out comes strictly before a listed
\* one in that order.
C23_AutoSelection ==
    (last.op = "plan" /\ last.status = "ok" /\ Len(last.arg) = 2 /\ last.arg[2].auto) =>
        LET mine == {p \in Rows(skillProfileClaimed) : p.student_id = last.student}
            sel  == last.arg[1].skills
            row(k) == CHOOSE p \in mine : p.skill_name = k
            listed == {sel[i] : i \in DOMAIN sel}
            n    == Cardinality({p.skill_name : p \in mine})
        IN /\ Len(sel) = IF n < 5 THEN n ELSE 5
           /\ \A i, j \in DOMAIN sel : i # j => sel[i] # sel[j]
           /\ listed \subseteq {p.skill_name : p \in mine}
           /\ \A i, j \in DOMAIN sel : i < j => ~StrictlyBefore(row(sel[j]), row(sel[i]))
           /\ \A p \in mine : p.skill_name \notin listed
                 => \A k \in listed : ~StrictlyBefore(p, row(k))

\* Six claimed skills, five listed; the plan starts with a skill of the
\* lowest confidence and score 70 and leaves out the most confident skill.
C23_Witness ==
    /\ last.op = "plan" /\ last.status = "ok" /\ Len(last.arg) = 2 /\ last.arg[2].auto
    /\ Cardinality({p \in Rows(skillProfileClaimed) : p.student_id = last.student}) = 6
    /\ Len(last.arg[1].skills) = 5
    /\ \E p \in Rows(skillProfileClaimed) :
          /\ p.skill_name = last.arg[1].skills[1]
          /\ p.confidence = 2000 /\ p.claimed_score = 70 * ScoreOne
    /\ \E p \in Rows(skillProfileClaimed) :
          /\ p.confidence = 5000
          /\ \A i \in DOMAIN last.arg[1].skills : last.arg[1].skills[i] # p.skill_name
    /\ \E i \in DOMAIN last.arg[1].skills : \E p \in Rows(skillProfileClaimed) :
          p.skill_name = last.arg[1].skills[i] /\ p.claimed_score = 60 * ScoreOne


\* C24: in a sample every requirement has its slot; a slot whose exact cell
\* is empty holds min(n, size) questions, all of the first non-empty
\* difficulty of the order (hard: medium, easy; medium: easy, hard; easy:
\* medium, hard) of the same skill, and the returned warnings name that
\* difficulty; when the skill has no question at all the slot is empty and
\* the returned warnings say it was skipped.
C24_EmptyCellFallback ==
    last.op = "sample" =>
        LET reqs == last.arg[1]
            n    == last.arg[2]
            out  == last.arg[3]
            have(skill, d) == {q \in questionBank : q.skill_name = skill /\ q.difficulty = d}
            first(d)  == IF d = "hard" THEN "medium" ELSE IF d = "medium" THEN "easy"
                         ELSE "medium"
            second(d) == IF d = "hard" THEN "easy" ELSE "hard"
        IN /\ Len(out.slots) = Len(reqs)
           /\ \A i \in DOMAIN reqs :
                 LET skill == reqs[i].skill_name
                     d     == reqs[i].difficulty
                     from  == IF have(skill, first(d)) # {} THEN first(d) ELSE second(d)
                     size  == Cardinality(have(skill, from))
                 IN have(skill, d) = {} =>
                       /\ Len(out.slots[i]) = IF size < n THEN size ELSE n
                       /\ \A j \in DOMAIN out.slots[i] :
                             /\ out.slots[i][j] \in have(skill, from)
                             /\ \A k \in DOMAIN out.slots[i] :
                                   j # k => out.slots[i][j] # out.slots[i][k]
                       /\ last.status = "ok" =>
                             /\ \E w \in DOMAIN out.warnings :
                                   /\ out.warnings[w].kind = "none_available"
                                   /\ out.warnings[w].skill = skill
                                   /\ out.warnings[w].difficulty = d
                             /\ size > 0 =>
                                   \E w \in DOMAIN out.warnings :
                                      /\ out.warnings[w].kind = "used_instead"
                                      /\ out.warnings[w].skill = skill
                                      /\ out.warnings[w].difficulty = from
                                      /\ out.warnings[w].found = Len(out.slots[i])
                             /\ size = 0 =>
                                   \E w \in DOMAIN out.warnings :
                                      /\ out.warnings[w].kind = "skipping"
                                      /\ out.warnings[w].skill = skill

\* SQL hard asked with no hard SQL question but medium and easy ones in the
\* bank, followed by a Python slot that is skipped: the SQL slot holds a
\* medium question.
C24_Witness ==
    /\ last.op = "sample" /\ last.status = "ok"
    /\ last.arg[1] = <<Slot("SQL", "hard"), Slot("Python", "hard")>>
    /\ \A q \in questionBank : ~(q.skill_name = "SQL" /\ q.difficulty = "hard")
    /\ \E q \in questionBank : q.skill_name = "SQL" /\ q.difficulty = "medium"
    /\ \E q \in questionBank : q.skill_name = "SQL" /\ q.difficulty = "easy"
    /\ Len(last.arg[3].slots[1]) >= 1
    /\ last.arg[3].slots[1][1].difficulty = "medium"
    /\ last.arg[3].slots[2] = <<>>

----------------------------------------------------------------------------
(* Overlapping requests *)

\* C9: no (student, skill) pair has more than one StudentSkillPortfolio row,
\* also after two submissions that both found no row have committed.
C9_OnePortfolioRowPerSkill ==
    \A s \in Students : \A skill \in Skills :
        CountRows(studentSkillPortfolio,
                  PortfolioKeyRows(studentSkillPortfolio, s, skill)) <= 1

\* A submission that had found no row was refused at commit because the
\* other one inserted first.
C9_Witness ==
    /\ last.op = "submit" /\ last.status = "IntegrityError"
    /\ CountRows(studentSkillPortfolio,
                 PortfolioKeyRows(studentSkillPortfolio, last.student, "SQL")) = 1

----------------------------------------------------------------------------
(* Quiz planning *)

\* C11: an explicit selection of more than MAX_SKILLS_ALLOWED names is
\* never accepted (TooManySkills when the student has claimed skills), the
\* stored plan never lists more names than that, and a rejected request
\* leaves the QuizPlan table as it was.
C11_TooManySkillsRejected ==
    /\ [](\A s \in Students : \A req \in PlanSelections :
            (~req.auto /\ Len(req.names) > 5)
            => /\ CreatePlanStatus(skillProfileClaimed, s, req) # "ok"
               /\ (\E p \in Rows(skillProfileClaimed) : p.student_id = s)
                  => CreatePlanStatus(skillProfileClaimed, s, req) = "TooManySkills")
    /\ [](\A r \in Rows(quizPlan) : Len(r.skills) <= 5)
    /\ [][(last'.op = "plan" /\ last'.status # "ok") => UNCHANGED quizPlan]_vars

C11_Witness ==
    /\ last.op = "plan" /\ last.status = "TooManySkills"
    /\ Len(last.arg[1].names) = 6
    /\ \E r \in Rows(quizPlan) : r.student_id = last.student

----------------------------------------------------------------------------
(* Sampling from the question bank *)

\* C12: sample_quiz_from_bank fails with EmptyBank exactly when no slot
\* yielded a question, which is when the bank holds no question of any
\* requested skill; otherwise it succeeds and returns every question taken,
\* warnings included.
C12_EmptyBankIffNothingSampled ==
    last.op = "sample"
    => LET reqs == last.arg[1]
           out == last.arg[3]
       IN /\ last.status \in {"ok", "EmptyBank"}
          /\ last.status = "EmptyBank"
               <=> \A i \in DOMAIN out.slots : out.slots[i] = <<>>
          /\ last.status = "EmptyBank"
               <=> \A i \in DOMAIN reqs : \A q \in questionBank :
                       q.skill_name # reqs[i].skill_name
          /\ last.status = "ok"
               => /\ Len(out.questions) >= 1
                  /\ \A i \in DOMAIN out.slots : \A j \in DOMAIN out.slots[i] :
                        \E k \in DOMAIN out.questions :
                            out.questions[k].question = out.slots[i][j].question_text

\* Partial fulfilment: one slot was skipped, another yielded a question.
C12_Witness ==
    /\ last.op = "sample" /\ last.status = "ok"
    /\ \E i \in DOMAIN last.arg[3].slots : last.arg[3].slots[i] = <<>>
    /\ \E i \in DOMAIN last.arg[3].warnings : last.arg[3].warnings[i].kind = "skipping"
    /\ Len(last.arg[3].questions) >= 1

\* C13: a slot asking for n questions whose exact cell holds k, 0 < k < n,
\* yields the k questions of the cell and then questions of the fallback
\* difficulties, the first difficulty before the second, until n is reached
\* or both are used up; each difficulty drawn on is named in a warning.
C13_ShortfallBackfill ==
    last.op = "sample"
    => LET reqs == last.arg[1]
           n == last.arg[2]
           out == last.arg[3]
       IN \A i \in DOMAIN reqs :
            LET skill == reqs[i].skill_name
                d == reqs[i].difficulty
                order == IF d = "hard" THEN <<"medium", "easy">>
                         ELSE IF d = "medium" THEN <<"easy", "hard">>
                         ELSE <<"medium", "hard">>
                cell == {q \in questionBank : q.skill_name = skill /\ q.difficulty = d}
                f1 == {q \in questionBank : q.skill_name = skill /\ q.difficulty = order[1]}
                f2 == {q \in questionBank : q.skill_name = skill /\ q.difficulty = order[2]}
                k == Cardinality(cell)
                got == {out.slots[i][j] : j \in DOMAIN out.slots[i]}
                all == k + Cardinality(f1) + Cardinality(f2)
            IN (0 < k /\ k < n)
               => /\ cell \subseteq got
                  /\ got \subseteq cell \cup f1 \cup f2
                  /\ Cardinality(got) = Len(out.slots[i])
                  /\ Len(out.slots[i]) = IF all < n THEN all ELSE n
                  /\ got \cap f2 # {} => f1 \subseteq got
                  /\ \A f \in {f1, f2} :
                        got \cap f # {}
                        => \E w \in DOMAIN out.warnings :
                              /\ out.warnings[w].kind = "filled"
                              /\ out.warnings[w].skill = skill
                              /\ \A q \in f : out.warnings[w].difficulty = q.difficulty
                              /\ out.warnings[w].found = Cardinality(got \cap f)

\* The worked example: 2 hard asked, 1 hard and 1 medium in the bank.
C13_Witness ==
    /\ last.op = "sample"
    /\ last.arg[1] = <<Slot("SQL", "hard")>> /\ last.arg[2] = 2
    /\ Cardinality(Cell(questionBank, "SQL", "hard")) = 1
    /\ Cardinality(Cell(questionBank, "SQL", "medium")) = 1
    /\ Len(last.arg[3].slots[1]) = 2
    /\ last.arg[3].slots[1][1].difficulty = "hard"
    /\ last.arg[3].slots[1][2].difficulty = "medium"
    /\ \E w \in DOMAIN last.arg[3].warnings :
          /\ last.arg[3].warnings[w].kind = "filled"
          /\ last.arg[3].warnings[w].difficulty = "medium"

----------------------------------------------------------------------------
(* Quizzes drawn from the bank *)

\* The bank rows a sample took, slot after slot.
RECURSIVE Flattened(_)
Flattened(slots) == IF slots = <<>> THEN <<>> ELSE Head(slots) \o Flattened(Tail(slots))

\* C26: a quiz drawn from the bank stores, question by question, the
\* correct_option of the bank row sampled; no later request changes or
\* removes an issued question; clearing or restoring the bank changes no
\* question, answer or portfolio row; and a submission marks an answer
\* correct exactly when it equals the option the issued question holds,
\* whatever the bank holds by then.
C26_QuestionFreeze ==
    [][/\ \A q \in quizQuestion : q \in quizQuestion'
       /\ (last'.op = "generate" /\ last'.status = "ok") =>
             LET taken == Flattened(last'.arg[2].slots)
                 new   == quizQuestion' \ quizQuestion
                 first == NextId({q.question_id : q \in quizQuestion})
             IN /\ Cardinality(new) = Len(taken)
                /\ \A i \in DOMAIN taken :
                      /\ taken[i] \in questionBank
                      /\ \E q \in new :
                            /\ q.question_id = first + i - 1
                            /\ q.attempt_id = last'.attempt
                            /\ q.student_id = last'.student
                            /\ q.skill_name = taken[i].skill_name
                            /\ q.difficulty = taken[i].difficulty
                            /\ q.correct_option = taken[i].correct_option
       /\ (last'.op \in {"clear", "restore"}) =>
             /\ quizQuestion' = quizQuestion
             /\ quizAnswer' = quizAnswer
             /\ studentSkillPortfolio' = studentSkillPortfolio
       /\ (last'.op = "submit" /\ last'.status = "ok") =>
             \A q \in quizQuestion :
                (q.attempt_id = last'.attempt /\ q.student_id = last'.student) =>
                    \E a \in Rows(quizAnswer') :
                       /\ a.attempt_id = q.attempt_id
                       /\ a.question_id = q.question_id
                       /\ a.is_correct =
                             (/\ q.question_id \in DOMAIN last'.arg
                              /\ last'.arg[q.question_id] = q.correct_option)
      ]_vars

\* An attempt drawn from the seeded bank and submitted with every answer "A"
\* after the bank was replaced by questions whose answer is "B": the easy
\* question issued with answer "A" is marked correct.
C26_Witness ==
    /\ last.op = "submit" /\ last.status = "ok"
    /\ questionBank # {}
    /\ \A b \in questionBank : b.correct_option = "B"
    /\ \E q \in HeldQuestions(last.student, last.attempt) :
          /\ q.difficulty = "easy" /\ q.correct_option = "A"
          /\ \E b \in questionBank : b.question_text = "sql-e1" /\ b.skill_name = q.skill_name
          /\ \E a \in AnswersOf(last.attempt) :
                a.question_id = q.question_id /\ a.selected_option = "A" /\ a.is_correct

\* C28: the bank rows returned by one sample are pairwise different, over
\* all slots.
C28_NoRepeatedQuestion ==
    (last.op = "sample" /\ last.status = "ok") =>
        LET taken == Flattened(last.arg[3].slots)
        IN \A i, j \in DOMAIN taken : i # j => taken[i].id # taken[j].id

\* C29: in a quiz drawn from the bank, for every skill of the plan and every
\* difficulty whose bank cell holds at least as many questions as the plan's
\* mix counts, the attempt holds exactly that many questions of the skill
\* and difficulty.
C29_MixHonoured ==
    (last.op = "generate" /\ last.status = "ok") =>
        LET quiz_plan == last.arg[1]
            held == HeldQuestions(last.student, last.attempt)
        IN \A k \in DOMAIN quiz_plan.skills : \A d \in DOMAIN Difficulties :
              LET skill == quiz_plan.skills[k]
                  difficulty == Difficulties[d]
                  wanted == MixCount(quiz_plan.difficulty_mix[skill], difficulty)
                  cell == {q \in questionBank : /\ q.skill_name = skill
                                                /\ q.difficulty = difficulty}
              IN Cardinality(cell) >= wanted =>
                    Cardinality({q \in held : /\ q.skill_name = skill
                                              /\ q.difficulty = difficulty}) = wanted

\* C30: the QuizPlan row an accepted create_quiz_plan leaves lists between
\* 1 and MAX_SKILLS_ALLOWED skills, no skill twice, every one a skill the
\* student has a claimed row for, and its difficulty mix has one entry per
\* listed skill.
C30_PlanWellFormed ==
    (last.op = "plan" /\ last.status = "ok") =>
      \A p \in PlansOf(quizPlan, last.student) :
        /\ 1 <= Len(p.skills) /\ Len(p.skills) <= MAX_SKILLS_ALLOWED
        /\ \A i, j \in DOMAIN p.skills : i # j => p.skills[i] # p.skills[j]
        /\ \A i \in DOMAIN p.skills :
              \E c \in Rows(skillProfileClaimed) :
                 c.student_id = p.student_id /\ c.skill_name = p.skills[i]
        /\ DOMAIN p.difficulty_mix = {p.skills[i] : i \in DOMAIN p.skills}
        /\ Cardinality(DOMAIN p.difficulty_mix) = Len(p.skills)
====
